---- MODULE Spec2Model ----
(***************************************************************************)
(* A model of neo-replay-rs: the action normaliser PchFile::fix_actions    *)
(* (src/src/lib.rs) and the replay engine Renderer (src/src/renderer.rs).  *)
(*                                                                         *)
(* Two specifications:                                                     *)
(*   SpecFix  runs the fix_actions pass twice over a bounded raw log;      *)
(*   Spec     runs Renderer::render_frame_by_frame: the initial clear and  *)
(*            frame, then for every action of the log execute_action and   *)
(*            one more frame.  The loop never looks ahead in the log, so   *)
(*            the log's elements are drawn when the loop reaches them.     *)
(*                                                                         *)
(* Machine integers keep their width.  TLC's integers are 32 bits wide, so *)
(* a u32 is held as two 16-bit halves [hi, lo]; an i32 is a TLC integer.   *)
(* An arithmetic overflow panics in a build with overflow checks (the      *)
(* debug profile) and wraps in a build without them (the release profile): *)
(* the variable overflow_checks is the profile of the build under test.    *)
(***************************************************************************)
EXTENDS Integers, Sequences, FiniteSets, TLC

(* ------------------------------ bounds -------------------------------- *)
W == 2              \* canvas width  (PchHeader.width)
H == 2              \* canvas height (PchHeader.height)
MaxActions == 3     \* actions of the log the replay loop consumes
MaxRaw == 2         \* actions of the raw log given to fix_actions
MaxSlots == 4       \* elements of one raw action given to fix_actions

VARIABLES
    pc,              \* position of the program
    overflow_checks, \* build profile: TRUE panics on overflow, FALSE wraps
    \* --- PchFile::fix_actions ---
    raw,             \* the log as loaded (kept to state the claims)
    actions,         \* self.actions
    i,               \* the loop index of fix_actions (0-based, as in the code)
    pass,            \* which call of fix_actions is running (1 or 2)
    once,            \* self.actions as the first call left it
    \* --- Renderer::render_frame_by_frame ---
    action,          \* the loop variable `action`
    n,               \* actions of the log consumed so far
    layers,          \* canvas.layers
    state,           \* self.state (DrawingState)
    clipboard,       \* self.clipboard
    nframes,         \* frames.len()
    frame,           \* frames.last(): the frame pushed last
    result,          \* what render_frame_by_frame returned
    \* --- history, read by the properties only ---
    before,          \* canvas.layers before `action` ran (kept for copy and paste)
    prev,            \* the action that ran before `action` (kept for copy and paste)
    prev_before,     \* canvas.layers before prev ran
    \* --- Renderer::get_alpha, called on its own ---
    returned,        \* the alpha the last call of get_alpha returned
    \* --- Renderer::init_round_data ---
    round_table,     \* self.round_data while it is built
    mask,            \* the local `mask`
    mask_r,          \* the loop variable `r`
    mask_index,      \* the local `index`
    \* --- Renderer::do_flood_fill, one pop of the stack at a time ---
    stack,           \* the local `stack`
    base_color       \* the local `base_color`

vars == <<pc, overflow_checks, raw, actions, i, pass, once,
          action, n, layers, state, clipboard, nframes, frame, result,
          before, prev, prev_before, returned,
          round_table, mask, mask_r, mask_index, stack, base_color>>

floodVars == <<stack, base_color>>
kernelVars == <<round_table, mask, mask_r, mask_index>>
fixVars == <<raw, actions, i, pass, once>>
renderVars == <<action, n, layers, state, clipboard, nframes, frame, result,
                before, prev, prev_before, returned>>

(* ---------------------------- ActionValue ----------------------------- *)
(* A slot of an action is a string or a number (serde's untagged enum      *)
(* reads every JSON number as Number(f64)).  A number is                   *)
(*   (neg ? -1 : 1) * (hi * 65536 + lo + (half ? 1/2 : 0)),  0 <= lo < 2^16 *)
Str(s) == [t |-> "s", s |-> s, neg |-> FALSE, hi |-> 0, lo |-> 0, half |-> FALSE]
Num(k) == [t |-> "n", s |-> "", neg |-> (k < 0), hi |-> 0,
           lo |-> (IF k < 0 THEN -k ELSE k), half |-> FALSE]
Half(k) == [t |-> "n", s |-> "", neg |-> (k < 0), hi |-> 0,
            lo |-> (IF k < 0 THEN -k ELSE k), half |-> TRUE]
Big(h, l) == [t |-> "n", s |-> "", neg |-> FALSE, hi |-> h, lo |-> l, half |-> FALSE]

IsNumber(v) == v.t = "n"
IsString(v) == v.t = "s"

(* the f64 of a number slot *)
F64(v) == [neg |-> v.neg, hi |-> v.hi, lo |-> v.lo, half |-> v.half]

(* ------------------------- numeric conversions ------------------------ *)
(* `f as u32`: truncates toward zero and saturates. *)
as_u32(f) == IF f.neg THEN [hi |-> 0, lo |-> 0]
             ELSE IF f.hi > 65535 THEN [hi |-> 65535, lo |-> 65535]
             ELSE [hi |-> f.hi, lo |-> f.lo]

(* `f as u8`: truncates toward zero and saturates at 255. *)
as_u8(f) == IF f.neg THEN 0
            ELSE IF f.hi > 0 \/ f.lo > 255 THEN 255
            ELSE f.lo

(* `f as usize`: only ever compared with 2, a length or 30 afterwards, so  *)
(* every value of 65536 or more is held as 65536.                          *)
as_usize(f) == IF f.neg THEN 0
               ELSE IF f.hi > 0 THEN 65536
               ELSE f.lo

MaxI32 == 32767 * 65536 + 65535     \* i32::MAX
MinI32 == -MaxI32 - 1

(* `f as i32`: truncates toward zero and saturates. *)
as_i32(f) == IF f.hi >= 32768 THEN (IF f.neg THEN MinI32 ELSE MaxI32)
             ELSE IF f.neg THEN -(f.hi * 65536 + f.lo)
             ELSE f.hi * 65536 + f.lo

(* `f as i64`, for MaskType::from and LineType::from: only 1..7 matter. *)
as_i64(f) == IF f.hi > 0 THEN (IF f.neg THEN -65536 ELSE 65536)
             ELSE IF f.neg THEN -f.lo
             ELSE f.lo

(* `u as i32` of a u32: the same 32 bits read as two's complement. *)
u32_as_i32(u) == IF u.hi >= 32768 THEN (u.hi - 65536) * 65536 + u.lo
                 ELSE u.hi * 65536 + u.lo

(* `s as u32` of an i32. *)
i32_as_u32(s) == IF s >= 0 THEN [hi |-> s \div 65536, lo |-> s % 65536]
                 ELSE LET t == (s + MaxI32) + 1
                      IN  [hi |-> 32768 + (t \div 65536), lo |-> t % 65536]

U32(k) == [hi |-> k \div 65536, lo |-> k % 65536]
LtU32(a, b) == a.hi < b.hi \/ (a.hi = b.hi /\ a.lo < b.lo)
LeU32(a, b) == a = b \/ LtU32(a, b)
MinU32(a, b) == IF LtU32(b, a) THEN b ELSE a

(* a + b of two u32: the wrapped sum and whether it overflowed. *)
add_u32(a, b) ==
    LET l == a.lo + b.lo
        h == a.hi + b.hi + (l \div 65536)
    IN  [sum |-> [hi |-> h % 65536, lo |-> l % 65536], ovf |-> (h > 65535)]

(* a + b of two i32: whether it overflows, and the wrapped sum. *)
add_i32_ovf(a, b) == (b > 0 /\ a > MaxI32 - b) \/ (b < 0 /\ a < MinI32 - b)
add_i32_wrap(a, b) ==
    IF b > 0 /\ a > MaxI32 - b THEN ((a - MaxI32) - 1) + (b + MinI32)
    ELSE IF b < 0 /\ a < MinI32 - b THEN ((a - MinI32) + (b + MaxI32)) + 1
    ELSE a + b

(* ------------------------------ pixels -------------------------------- *)
Xs == 0 .. (W - 1)
Ys == 0 .. (H - 1)
Cells == Xs \X Ys

Rgba(r, g, b, a) == <<r, g, b, a>>
Transparent == Rgba(0, 0, 0, 0)

(* pixel_to_u32 packing red and blue the other way round: 0xAARRGGBB *)
pixel_to_u32_argb(p) == [hi |-> p[4] * 256 + p[1], lo |-> p[2] * 256 + p[3]]

(* pixel_to_u32: (a << 24) | (b << 16) | (g << 8) | r *)
pixel_to_u32(p) == [hi |-> p[4] * 256 + p[3], lo |-> p[2] * 256 + p[1]]

(* the unpacking of do_paste and do_flood_fill: (w >> 8k) & 0xff *)
unpack_u32(w) == Rgba(w.lo % 256, w.lo \div 256, w.hi % 256, w.hi \div 256)

(* ImageBuffer::new: every channel zero *)
BlankLayer == [c \in Cells |-> Transparent]

(* Canvas::clear *)
canvas_clear(ls) == <<BlankLayer, BlankLayer>>

(* clearing every layer whichever is named *)
clear_layer_all(ls, layer) == <<BlankLayer, BlankLayer>>

(* Canvas::clear_layer; layer is 0-based as in the code, tuples 1-based *)
clear_layer(ls, layer) ==
    IF layer < 2 THEN [ls EXCEPT ![layer + 1] = BlankLayer] ELSE ls

put_pixel(ls, layer, c, p) == [ls EXCEPT ![layer + 1][c] = p]
get_pixel(ls, layer, c) == ls[layer + 1][c]

(* ------------------------- export and composite ----------------------- *)
(* fg * alpha + bg * (1 - alpha) cast to u8, with alpha = a / 255.  The    *)
(* code computes it in f32; the model computes the exact quotient, which   *)
(* is what f32 gives when a is 0 or 255 (alpha is then exactly 0.0 or 1.0).*)
blend_channel(fg, bg, a) == (fg * a + bg * (255 - a)) \div 255

White == <<255, 255, 255>>

over_rgb(p, bg) ==
    IF p[4] > 0
    THEN <<blend_channel(p[1], bg[1], p[4]),
           blend_channel(p[2], bg[2], p[4]),
           blend_channel(p[3], bg[3], p[4])>>
    ELSE bg

(* the export without the white background under the layer *)
get_layer_as_rgb_bare(ls, layer) ==
    [c \in Cells |-> <<ls[layer + 1][c][1], ls[layer + 1][c][2], ls[layer + 1][c][3]>>]

(* Canvas::get_layer_as_rgb *)
get_layer_as_rgb(ls, layer) == [c \in Cells |-> over_rgb(ls[layer + 1][c], White)]

(* the composite with layer 0 drawn over layer 1, and                     *)
(* Canvas::composite: both layers are visible (visible is never changed)  *)
composite_under(ls) == [c \in Cells |-> over_rgb(ls[1][c], over_rgb(ls[2][c], White))]

composite(ls) == [c \in Cells |-> over_rgb(ls[2][c], over_rgb(ls[1][c], White))]

(* FrameSet *)
FrameSet(ls) == [layer0 |-> get_layer_as_rgb(ls, 0),
                 layer1 |-> get_layer_as_rgb(ls, 1),
                 composite |-> composite(ls)]

NoFrame == [layer0 |-> [c \in Cells |-> <<0, 0, 0>>],
            layer1 |-> [c \in Cells |-> <<0, 0, 0>>],
            composite |-> [c \in Cells |-> <<0, 0, 0>>]]

(* ---------------------------- DrawingState ---------------------------- *)
(* Alphas are fixed-point numbers in units of 1/Q, with Q = 255 * 4096:    *)
(* 1.0 is Q units and 1/255 is 4096 units.                                 *)
Quantum == 2^12
Q == 255 * Quantum

F64Of(k) == F64(Num(k))

(* DrawingState::default *)
DefaultState == [current_color |-> Rgba(0, 0, 0, 255),
                 current_mask |-> Rgba(0, 0, 0, 0),
                 current_width |-> F64Of(1),
                 current_mask_type |-> 0,
                 aerr |-> 0]

(* MaskType::from *)
MaskTypeFrom(k) == IF k \in 1 .. 4 THEN k ELSE 0

(* LineType::from: 1 Pen, 2 Eraser, 3 Brush, 4 Tone, 5 Dodge, 6 Burn, 7 Blur, 0 None *)
LineTypeFrom(k) == IF k \in 1 .. 7 THEN k ELSE 0

(* ---------------------------- kernel tables --------------------------- *)
(* init_round_data: cell idx of round_data[d], with the overrides of 3, 5  *)
(* (xx = x + 0.5 - d/2, compared after scaling both sides by 4).           *)
round_data(d, idx) ==
    LET x == idx \div d
        y == idx % d
        inside == (2 * x + 1 - d) * (2 * x + 1 - d) + (2 * y + 1 - d) * (2 * y + 1 - d) <= d * d
    IN  IF d = 3 /\ idx \in {0, 2, 6, 8} THEN 0
        ELSE IF d = 5 /\ idx \in {1, 3, 5, 9, 15, 19, 21, 23} THEN 0
        ELSE IF inside THEN 1 ELSE 0

(* init_tone_data *)
tone_pattern == <<0, 8, 2, 10, 12, 4, 14, 6, 3, 11, 1, 9, 15, 7, 13, 5>>
tone_data(k, j) == IF k >= tone_pattern[j + 1] THEN 1 ELSE 0

(* get_tone_data: the index of the pattern chosen for a colour alpha      *)
(* (before it, the choice with `alpha <= alpha_table[i]`)                  *)
alpha_table == <<23, 47, 69, 92, 114, 114, 114, 138, 161, 184, 184, 207, 230, 230, 253>>
get_tone_data_le(alpha) ==
    IF \E k \in 1 .. Len(alpha_table) : alpha <= alpha_table[k]
    THEN (CHOOSE k \in 1 .. Len(alpha_table) :
              /\ alpha <= alpha_table[k]
              /\ \A j \in 1 .. (k - 1) : ~(alpha <= alpha_table[j])) - 1
    ELSE Len(alpha_table)

get_tone_data(alpha) ==
    IF \E k \in 1 .. Len(alpha_table) : alpha < alpha_table[k]
    THEN (CHOOSE k \in 1 .. Len(alpha_table) :
              /\ alpha < alpha_table[k]
              /\ \A j \in 1 .. (k - 1) : ~(alpha < alpha_table[j])) - 1
    ELSE Len(alpha_table)

(* ------------------------------ get_alpha ------------------------------ *)
CeilDiv(p, q) == -((-p) \div q)
Clamp(v, lo, hi) == IF v < lo THEN lo ELSE IF v > hi THEN hi ELSE v
(* the r in lo .. hi with r * r <= v < (r + 1) * (r + 1), by bisection *)
RECURSIVE Bisect(_, _, _)
Bisect(v, lo, hi) ==
    IF lo >= hi THEN lo
    ELSE LET mid == (lo + hi + 1) \div 2
         IN  IF mid * mid <= v THEN Bisect(v, mid, hi) ELSE Bisect(v, lo, mid - 1)

ISqrtUpTo(v, m) == Bisect(v, 0, m)
ISqrt(v) == ISqrtUpTo(v, 4200)

(* The three alpha curves, in units of 1/Q, of a colour alpha A in 0..255. *)
(* Exact at A = 0 and A = 255 (0.0 and 1.0 in the code); in between the    *)
(* f64 value is rounded down to the unit.                                  *)
pen_curve(A) ==
    IF A >= 128 THEN Clamp((Q \div 16) + 3840 * (2 * A - 255), 0, Q)
    ELSE Clamp(16 * ISqrt(130560 * A), 0, Q)

brush_raw(A) == ((-229376 * A) \div 100000) + ((4386816 * A) \div (1000 * (255 - A)))

brush_curve(A) == IF A = 255 THEN Q ELSE Clamp(brush_raw(A), 0, Q)

fill_curve(A) == IF A = 255 THEN Q ELSE Clamp(10 * brush_raw(A), 0, Q)

curve(alpha_type, A) ==
    CASE alpha_type = "Pen" -> pen_curve(A)
      [] alpha_type = "Brush" -> brush_curve(A)
      [] alpha_type = "Fill" -> fill_curve(A)

(* the while loop of get_alpha, 1/255 being `unit`: what is left of aerr *)
RECURSIVE drain(_, _)
drain(e, unit) == IF e > unit THEN drain(e - unit, unit) ELSE e

accumulate_keep(unit, aerr, a1) ==
    LET e == aerr + a1
    IN  IF a1 < unit
        THEN [a1 |-> (IF e > unit THEN unit ELSE 0), aerr |-> e]
        ELSE [a1 |-> a1, aerr |-> aerr]

(* `if a1 < 1.0 / 255.0 { .. }` of get_alpha and the value it returns *)
accumulate(unit, aerr, a1) ==
    LET e == aerr + a1
    IN  IF a1 < unit
        THEN [a1 |-> (IF e > unit THEN unit ELSE 0), aerr |-> drain(e, unit)]
        ELSE [a1 |-> a1, aerr |-> aerr]

(* get_alpha: the alpha returned and the new aerr *)
get_alpha(st, alpha_type) ==
    accumulate(Quantum, st.aerr, curve(alpha_type, st.current_color[4]))

(* The same at a finer resolution, in units of 1/QFine with 1/255 = Fine:  *)
(* with a = A / 255 the brush curve -0.00056 a + 0.0042 / (1 - a) - 0.0042 *)
(* is A (92820 + 56 A) / (100000 (255 - A)) times 1/255, which is a whole  *)
(* number of units for the colour alphas of AlphaInputs; elsewhere the     *)
(* value is rounded down to the unit.                                      *)
Fine == 800000
QFine == 255 * Fine

pen_fine(A) ==
    IF A >= 128 THEN Clamp((QFine \div 16) + 750000 * (2 * A - 255), 0, QFine)
    ELSE Clamp(500 * ISqrtUpTo(5100000 * A, 26000), 0, QFine)

brush_fine(A) ==
    IF A = 255 THEN QFine
    ELSE Clamp((8 * A * (92820 + 56 * A)) \div (255 - A), 0, QFine)

fill_fine(A) ==
    IF brush_fine(A) >= QFine \div 10 THEN QFine ELSE 10 * brush_fine(A)

curve_fine(alpha_type, A) ==
    CASE alpha_type = "Pen" -> pen_fine(A)
      [] alpha_type = "Brush" -> brush_fine(A)
      [] alpha_type = "Fill" -> fill_fine(A)

get_alpha_fine(st, alpha_type) ==
    accumulate(Fine, st.aerr, curve_fine(alpha_type, st.current_color[4]))

(* ------------------------------- stamps -------------------------------- *)
(* a diameter that rounds the width to the nearest whole number, and      *)
(* d = (current_width as usize).clamp(1, 30); r = floor(d / 2)            *)
stamp_d_round(st) ==
    Clamp(as_usize(st.current_width)
              + (IF st.current_width.half /\ ~st.current_width.neg THEN 1 ELSE 0), 1, 30)

stamp_d(st) == Clamp(as_usize(st.current_width), 1, 30)

(* whether cell c is under a set cell of round_data[d] stamped at (x, y) *)
under_mask(st, x, y, c) ==
    LET d == stamp_d(st)
        r == d \div 2
        j == c[1] - (x - r)
        k == c[2] - (y - r)
    IN  /\ j \in 0 .. (d - 1)
        /\ k \in 0 .. (d - 1)
        /\ round_data(d, k * d + j) = 1

(* `if c1 > c0 { ceil } else { floor }`, then clamp(0, 255) as u8 *)
round_to_source(num, den, c1, c0) ==
    Clamp(IF c1 > c0 THEN CeilDiv(num, den) ELSE num \div den, 0, 255)

(* the pixel set_pen_point writes over p, for a1 > 0 *)
pen_blend(p, col, a1) ==
    LET a0 == p[4] * Quantum
        a == a0 + a1 - ((p[4] * a1) \div 255)
        a1x == IF a1 > Quantum THEN a1 ELSE Quantum
        t == (p[4] * (Q - a1x)) \div 255
        ch(k) == IF a > 0
                 THEN round_to_source(col[k] * a1x + p[k] * t, a, col[k], p[k])
                 ELSE p[k]
    IN  Rgba(ch(1), ch(2), ch(3), Clamp(CeilDiv(a, Quantum), 0, 255))

(* brush_blend with the alpha of the stamp alone for the alpha written *)
brush_blend_source_alpha(p, col, a1) ==
    LET a0 == p[4] * Quantum
        a == a0 + a1 - ((p[4] * a1) \div 255)
        a1x == IF a1 > Quantum THEN a1 ELSE Quantum
        ch(k) == IF a > 0
                 THEN round_to_source(col[k] * a1x + p[k] * a0, a0 + a1x, col[k], p[k])
                 ELSE p[k]
    IN  Rgba(ch(1), ch(2), ch(3), Clamp(CeilDiv(a1, Quantum), 0, 255))

(* the pixel set_brush_point writes over p, for a1 > 0 *)
brush_blend(p, col, a1) ==
    LET a0 == p[4] * Quantum
        a == a0 + a1 - ((p[4] * a1) \div 255)
        a1x == IF a1 > Quantum THEN a1 ELSE Quantum
        ch(k) == IF a > 0
                 THEN round_to_source(col[k] * a1x + p[k] * a0, a0 + a1x, col[k], p[k])
                 ELSE p[k]
    IN  Rgba(ch(1), ch(2), ch(3), Clamp(CeilDiv(a, Quantum), 0, 255))

(* set_pen_point: m is [layers, state, clipboard] *)
set_pen_point(m, layer, x, y) ==
    LET ga == get_alpha(m.state, "Pen")
        st == [m.state EXCEPT !.aerr = ga.aerr]
        old == m.layers[layer + 1]
        new == [c \in Cells |->
                   IF under_mask(st, x, y, c)
                   THEN pen_blend(old[c], st.current_color, ga.a1)
                   ELSE old[c]]
    IN  IF ga.a1 = 0 THEN [m EXCEPT !.state = st]
        ELSE [m EXCEPT !.state = st, !.layers[layer + 1] = new]

(* set_brush_point without `if a1 == 0.0 { return; }`, and set_brush_point *)
set_brush_point_on(m, layer, x, y) ==
    LET ga == get_alpha(m.state, "Brush")
        st == [m.state EXCEPT !.aerr = ga.aerr]
        old == m.layers[layer + 1]
        new == [c \in Cells |->
                   IF under_mask(st, x, y, c)
                   THEN brush_blend(old[c], st.current_color, ga.a1)
                   ELSE old[c]]
    IN  [m EXCEPT !.state = st, !.layers[layer + 1] = new]

set_brush_point(m, layer, x, y) ==
    LET ga == get_alpha(m.state, "Brush")
        st == [m.state EXCEPT !.aerr = ga.aerr]
        old == m.layers[layer + 1]
        new == [c \in Cells |->
                   IF under_mask(st, x, y, c)
                   THEN brush_blend(old[c], st.current_color, ga.a1)
                   ELSE old[c]]
    IN  IF ga.a1 = 0 THEN [m EXCEPT !.state = st]
        ELSE [m EXCEPT !.state = st, !.layers[layer + 1] = new]

(* set_tone_point: the dither cell of pixel (px, py) is                    *)
(* ((x + (px - start_x)) % 4, (y + (py - start_y)) % 4)                    *)
set_tone_point(m, layer, x, y) ==
    LET st == m.state
        r == stamp_d(st) \div 2
        k == get_tone_data(st.current_color[4])
        col == st.current_color
        old == m.layers[layer + 1]
        lit(c) == tone_data(k, ((y + (c[2] - (y - r))) % 4) * 4 + ((x + (c[1] - (x - r))) % 4)) = 1
        new == [c \in Cells |->
                   IF under_mask(st, x, y, c) /\ lit(c)
                   THEN Rgba(col[1], col[2], col[3], 255)
                   ELSE old[c]]
    IN  [m EXCEPT !.layers[layer + 1] = new]

(* set_eraser_point *)
set_eraser_point(m, layer, x, y) ==
    LET old == m.layers[layer + 1]
        new == [c \in Cells |->
                   IF under_mask(m.state, x, y, c) THEN Transparent ELSE old[c]]
    IN  [m EXCEPT !.layers[layer + 1] = new]

(* draw_point_with_origin: 1 Pen, 2 Eraser, 3 Brush, 4 Tone, others Pen *)
draw_point_with_origin(m, layer, x, y, line_type) ==
    CASE line_type = 3 -> set_brush_point(m, layer, x, y)
      [] line_type = 4 -> set_tone_point(m, layer, x, y)
      [] line_type = 2 -> set_eraser_point(m, layer, x, y)
      [] OTHER -> set_pen_point(m, layer, x, y)

(* draw_line_segment: the Bresenham walk from (cx, cy) to (ex, ey) in i32. *)
(* dx, dy, sx, sy are fixed when the walk starts.  The walk is modelled    *)
(* for segments whose ends differ by less than 2^30 in each coordinate,    *)
(* where dx, dy and 2 * err cannot overflow.  The stroke origin handed to  *)
(* set_tone_point is not read there (_x0, _y0).                            *)
RECURSIVE walk(_, _, _, _, _, _, _, _, _, _, _, _)
walk(m, layer, cx, cy, ex, ey, dx, dy, sx, sy, err, line_type) ==
    LET m1 == IF cx >= 0 /\ cy >= 0 /\ cx < W /\ cy < H
              THEN draw_point_with_origin(m, layer, cx, cy, line_type)
              ELSE m
        e2 == 2 * err
        stepx == e2 > -dy
        stepy == e2 < dx
        err1 == IF stepx THEN err - dy ELSE err
        err2 == IF stepy THEN err1 + dx ELSE err1
    IN  IF cx = ex /\ cy = ey THEN m1
        ELSE walk(m1, layer,
                  IF stepx THEN cx + sx ELSE cx,
                  IF stepy THEN cy + sy ELSE cy,
                  ex, ey, dx, dy, sx, sy, err2, line_type)

Abs(v) == IF v < 0 THEN -v ELSE v

(* a segment that stops after its first point *)
draw_line_segment_first(m, layer, x0, y0, x1, y1, line_type) ==
    LET cx == u32_as_i32(x0)
        cy == u32_as_i32(y0)
    IN  IF cx >= 0 /\ cy >= 0 /\ cx < W /\ cy < H
        THEN draw_point_with_origin(m, layer, cx, cy, line_type)
        ELSE m

draw_line_segment(m, layer, x0, y0, x1, y1, line_type) ==
    LET cx == u32_as_i32(x0)
        cy == u32_as_i32(y0)
        ex == u32_as_i32(x1)
        ey == u32_as_i32(y1)
        dx == Abs(ex - cx)
        dy == Abs(ey - cy)
    IN  walk(m, layer, cx, cy, ex, ey, dx, dy,
             IF cx < ex THEN 1 ELSE -1, IF cy < ey THEN 1 ELSE -1,
             dx - dy, line_type)

(* ------------------------- action handlers ----------------------------- *)
(* A handler maps the engine m = [layers, state, clipboard] and an action  *)
(* to [m, res]: res is "ok" (Ok(())), "err" (an Err is returned through ?) *)
(* or "panic" (an overflow in a build with overflow checks).               *)
Ok(m) == [m |-> m, res |-> "ok"]
Err(m) == [m |-> m, res |-> "err"]
Panic(m) == [m |-> m, res |-> "panic"]

(* action[k], 0-based as in the code *)
Slot(a, k) == a[k + 1]

(* get_number: Ok for a Number, Err for a String *)
get_number_ok(v) == IsNumber(v)

AllNumbers(a, from, to) == \A k \in from .. to : get_number_ok(Slot(a, k))

(* the state update of slots 2..10: update_drawing_state_from_action, and  *)
(* the same statements inlined in fill                                    *)
state_from_slots(st, a) ==
    LET st1 == IF AllNumbers(a, 2, 5)
               THEN [st EXCEPT !.current_color =
                        Rgba(as_u8(F64(Slot(a, 2))), as_u8(F64(Slot(a, 3))),
                             as_u8(F64(Slot(a, 4))), as_u8(F64(Slot(a, 5))))]
               ELSE st
        st2 == IF AllNumbers(a, 6, 8)
               THEN [st1 EXCEPT !.current_mask =
                        Rgba(as_u8(F64(Slot(a, 6))), as_u8(F64(Slot(a, 7))),
                             as_u8(F64(Slot(a, 8))), 255)]
               ELSE st1
        st3 == IF get_number_ok(Slot(a, 9))
               THEN [st2 EXCEPT !.current_width = F64(Slot(a, 9))]
               ELSE st2
    IN  IF get_number_ok(Slot(a, 10))
        THEN [st3 EXCEPT !.current_mask_type = MaskTypeFrom(as_i64(F64(Slot(a, 10))))]
        ELSE st3

update_drawing_state_from_action(m, a) ==
    IF Len(a) >= 11 THEN [m EXCEPT !.state = state_from_slots(m.state, a)] ELSE m

(* action.get(11) as a line type: Pen when the slot is no Number *)
line_type_of(a) ==
    IF IsNumber(Slot(a, 11)) THEN LineTypeFrom(as_i64(F64(Slot(a, 11)))) ELSE 1

(* clear_canvas *)
clear_canvas(m, a) == Ok([m EXCEPT !.layers = canvas_clear(m.layers)])

(* erase_all *)
erase_all(m, a) ==
    IF Len(a) >= 2 /\ IsNumber(Slot(a, 1))
    THEN Ok([m EXCEPT !.layers = clear_layer(m.layers, as_usize(F64(Slot(a, 1))))])
    ELSE Ok(m)

(* the while loop of free_hand from index k *)
RECURSIVE free_hand_points(_, _, _, _, _)
free_hand_points(m, a, layer, line_type, k) ==
    IF k + 3 < Len(a)
    THEN IF AllNumbers(a, k, k + 3)
         THEN free_hand_points(
                  draw_line_segment(m, layer,
                      as_u32(F64(Slot(a, k))), as_u32(F64(Slot(a, k + 1))),
                      as_u32(F64(Slot(a, k + 2))), as_u32(F64(Slot(a, k + 3))),
                      line_type),
                  a, layer, line_type, k + 2)
         ELSE Err(m)
    ELSE Ok(m)

(* free_hand *)
free_hand(m, a) ==
    IF Len(a) < 12 THEN Ok(m)
    ELSE IF ~IsNumber(Slot(a, 1)) THEN Ok(m)
    ELSE IF as_usize(F64(Slot(a, 1))) >= 2 THEN Ok(m)
    ELSE free_hand_points(update_drawing_state_from_action(m, a), a,
                          as_usize(F64(Slot(a, 1))), line_type_of(a), 12)

(* draw_line *)
draw_line(m, a) ==
    IF Len(a) < 16 THEN Ok(m)
    ELSE IF ~IsNumber(Slot(a, 1)) THEN Ok(m)
    ELSE IF as_usize(F64(Slot(a, 1))) >= 2 THEN Ok(m)
    ELSE LET m1 == update_drawing_state_from_action(m, a)
         IN  IF AllNumbers(a, 12, 15)
             THEN Ok(draw_line_segment(m1, as_usize(F64(Slot(a, 1))),
                         as_u32(F64(Slot(a, 12))), as_u32(F64(Slot(a, 13))),
                         as_u32(F64(Slot(a, 14))), as_u32(F64(Slot(a, 15))),
                         line_type_of(a)))
             ELSE Err(m1)

(* draw_bezier and restore: a message, nothing else *)
draw_bezier_clear(m, a) == Ok([m EXCEPT !.layers = canvas_clear(m.layers)])
draw_bezier(m, a) == Ok(m)
restore(m, a) == Ok(m)

(* ------------------------------- fill ---------------------------------- *)
U32Max == [hi |-> 65535, lo |-> 65535]

(* a.saturating_sub(b) of two u32 *)
saturating_sub(a, b) ==
    IF LeU32(a, b) THEN [hi |-> 0, lo |-> 0]
    ELSE IF a.lo >= b.lo THEN [hi |-> a.hi - b.hi, lo |-> a.lo - b.lo]
    ELSE [hi |-> a.hi - b.hi - 1, lo |-> a.lo + 65536 - b.lo]

(* the value of a u32 below 2^31 as an integer *)
u32_value(u) == u.hi * 65536 + u.lo

(* twice an f64 below 65536 in magnitude, as an integer *)
twice(f) == IF f.neg THEN -(2 * f.lo + (IF f.half THEN 1 ELSE 0))
            ELSE 2 * f.lo + (IF f.half THEN 1 ELSE 0)

(* rect_mask: d = current_width as u32; 1 + d overflows for d = u32::MAX   *)
(* (then it wraps to 0 in a build without overflow checks)                 *)
rect_mask(st, x, y, width, height) ==
    LET d == as_u32(st.current_width)
        d1 == add_u32(U32(1), d).sum
    IN  \/ LtU32(U32(x), d)
        \/ LtU32(saturating_sub(width, d1), U32(x))
        \/ LtU32(U32(y), d)
        \/ LtU32(saturating_sub(height, d1), U32(y))

rect_mask_overflows(st) == as_u32(st.current_width) = U32Max

(* ellipse_fill_mask: ((x - cx) / (cx + 1))^2 + ((y - cy) / (cy + 1))^2 < 1 *)
(* with cx = (width - 1) / 2, after multiplying out the denominators.      *)
(* Evaluated in TLC's integers, so for (width + 1) * (height + 1) < 2^15.  *)
ellipse_fill_mask(x, y, width, height) ==
    LET w == u32_value(width)
        h == u32_value(height)
        X == 2 * x - (w - 1)
        Y == 2 * y - (h - 1)
    IN  X * X * (h + 1) * (h + 1) + Y * Y * (w + 1) * (w + 1)
            < (w + 1) * (w + 1) * (h + 1) * (h + 1)

(* ellipse_mask with the solid branch taken only for cx < d or cy < d *)
ellipse_mask_strict(st, x, y, width, height) ==
    LET w == u32_value(width)
        h == u32_value(height)
        d2 == twice(st.current_width)
        X == 2 * x - (w - 1)
        Y == 2 * y - (h - 1)
        A == (w - 1) - d2 + 2
        B == (h - 1) - d2 + 2
    IN  IF (w - 1) < d2 \/ (h - 1) < d2
        THEN ellipse_fill_mask(x, y, width, height)
        ELSE /\ ellipse_fill_mask(x, y, width, height)
             /\ X * X * B * B + Y * Y * A * A >= A * A * B * B

(* ellipse_mask: d = current_width (an f64, not truncated) *)
ellipse_mask(st, x, y, width, height) ==
    LET w == u32_value(width)
        h == u32_value(height)
        d2 == twice(st.current_width)
        X == 2 * x - (w - 1)
        Y == 2 * y - (h - 1)
        A == (w - 1) - d2 + 2
        B == (h - 1) - d2 + 2
    IN  IF (w - 1) <= d2 \/ (h - 1) <= d2
        THEN ellipse_fill_mask(x, y, width, height)
        ELSE /\ ellipse_fill_mask(x, y, width, height)
             /\ X * X * B * B + Y * Y * A * A >= A * A * B * B

(* apply_fill_mask *)
apply_fill_mask(st, x, y, width, height, fill_type) ==
    CASE fill_type = U32(20) -> rect_mask(st, x, y, width, height)
      [] fill_type = U32(21) -> TRUE
      [] fill_type = U32(22) -> ellipse_mask(st, x, y, width, height)
      [] fill_type = U32(23) -> ellipse_fill_mask(x, y, width, height)
      [] OTHER -> FALSE

(* the pixel do_fill writes over p: a1x = a1, ax = 1 + a0 * (1 - a1x),     *)
(* c = (c1 + c0 * a0 * (1 - a1x)) / ax, `as u8` after ceil or floor        *)
fill_blend(p, col, a1) ==
    LET a0 == p[4] * Quantum
        a == a0 + a1 - ((p[4] * a1) \div 255)
        t == (p[4] * (Q - a1)) \div 255
        ch(k) == IF a > 0
                 THEN round_to_source(col[k] * Q + p[k] * t, Q + t, col[k], p[k])
                 ELSE p[k]
    IN  Rgba(ch(1), ch(2), ch(3), Clamp(CeilDiv(a, Quantum), 0, 255))

(* the columns (or rows) v of the canvas with lo <= v < end *)
InRange(v, lo, end) == LeU32(lo, U32(v)) /\ LtU32(U32(v), end)

(* do_fill *)
do_fill(m, layer, x, y, width, height, fill_type) ==
    IF layer >= 2 THEN Ok(m)
    ELSE
    LET ga == get_alpha(m.state, "Fill")
        st == [m.state EXCEPT !.aerr = ga.aerr]
        m1 == [m EXCEPT !.state = st]
        sx == add_u32(x, width)
        sy == add_u32(y, height)
        end_x == MinU32(sx.sum, U32(W))
        end_y == MinU32(sy.sum, U32(H))
        inside(c) == InRange(c[1], x, end_x) /\ InRange(c[2], y, end_y)
        old == m.layers[layer + 1]
        new == [c \in Cells |->
                   IF inside(c) /\ apply_fill_mask(st, c[1] - x.lo, c[2] - y.lo,
                                                   width, height, fill_type)
                   THEN fill_blend(old[c], st.current_color, ga.a1)
                   ELSE old[c]]
    IN  IF overflow_checks /\ (sx.ovf \/ sy.ovf) THEN Panic(m1)
        ELSE IF /\ overflow_checks
                /\ fill_type = U32(20)
                /\ rect_mask_overflows(st)
                /\ \E c \in Cells : inside(c)
        THEN Panic(m1)
        ELSE Ok([m1 EXCEPT !.layers[layer + 1] = new])

(* fill *)
fill(m, a) ==
    IF Len(a) < 16 THEN Err(m)
    ELSE IF ~IsNumber(Slot(a, 1)) THEN Ok(m)
    ELSE LET m1 == [m EXCEPT !.state = state_from_slots(m.state, a)]
         IN  IF AllNumbers(a, 11, 15)
             THEN do_fill(m1, as_usize(F64(Slot(a, 1))),
                          as_u32(F64(Slot(a, 11))), as_u32(F64(Slot(a, 12))),
                          as_u32(F64(Slot(a, 13))), as_u32(F64(Slot(a, 14))),
                          as_u32(F64(Slot(a, 15))))
             ELSE Err(m1)

(* ----------------------------- flood fill ------------------------------ *)
MAX_STACK_SIZE == 1000000

(* the run of base-coloured cells of row py around px: its two ends *)
RECURSIVE extend_left(_, _, _, _)
extend_left(layer, base, x0, py) ==
    IF x0 > 0 /\ pixel_to_u32(layer[<<x0 - 1, py>>]) = base
    THEN extend_left(layer, base, x0 - 1, py)
    ELSE x0

RECURSIVE extend_right(_, _, _, _)
extend_right(layer, base, x1, py) ==
    IF x1 < W - 1 /\ pixel_to_u32(layer[<<x1 + 1, py>>]) = base
    THEN extend_right(layer, base, x1 + 1, py)
    ELSE x1

(* only the first cell of the run pushed for the neighbouring row *)
RunCells_first(x0, x1, py) == <<<<x0, py>>>>

(* <<x0, py>>, ..., <<x1, py>> in the order they are pushed *)
RunCells(x0, x1, py) == [k \in 1 .. (x1 - x0 + 1) |-> <<x0 + k - 1, py>>]

(* the `while let Some(..) = stack.pop()` loop of do_flood_fill *)
RECURSIVE flood_loop(_, _, _, _)
flood_loop(layer, todo, base, fill_color) ==
    IF todo = <<>> THEN layer
    ELSE
    LET top == todo[Len(todo)]
        rest == SubSeq(todo, 1, Len(todo) - 1)
        px == top[1]
        py == top[2]
        current == pixel_to_u32(layer[<<px, py>>])
        x0 == extend_left(layer, base, px, py)
        x1 == extend_right(layer, base, px, py)
        painted == [c \in Cells |->
                       IF c[2] = py /\ c[1] >= x0 /\ c[1] <= x1
                       THEN unpack_u32(fill_color)
                       ELSE layer[c]]
        down == IF py + 1 < H THEN RunCells(x0, x1, py + 1) ELSE <<>>
        up == IF py > 0 THEN RunCells(x0, x1, py - 1) ELSE <<>>
    IN  IF Len(rest) > MAX_STACK_SIZE THEN layer
        ELSE IF px >= W \/ py >= H THEN flood_loop(layer, rest, base, fill_color)
        ELSE IF current = fill_color \/ current # base
        THEN flood_loop(layer, rest, base, fill_color)
        ELSE flood_loop(painted, rest \o down \o up, base, fill_color)

(* do_flood_fill: x, y are i32, cast to u32 inside *)
do_flood_fill(m, layer, x, y, fill_color) ==
    IF layer >= 2 THEN Ok(m)
    ELSE
    LET ux == i32_as_u32(x)
        uy == i32_as_u32(y)
    IN  IF ~LtU32(ux, U32(W)) \/ ~LtU32(uy, U32(H)) THEN Ok(m)
        ELSE
        LET base == pixel_to_u32(m.layers[layer + 1][<<ux.lo, uy.lo>>])
        IN  IF base.hi \div 256 = 0 \/ base = fill_color THEN Ok(m)
            ELSE Ok([m EXCEPT !.layers[layer + 1] =
                        flood_loop(m.layers[layer + 1], <<<<ux.lo, uy.lo>>>>,
                                   base, fill_color)])

(* flood_fill with the parse errors of x, y and the colour swallowed: the  *)
(* action is skipped instead of ending the replay                          *)
flood_fill_lenient(m, a) ==
    IF Len(a) < 5 THEN Err(m)
    ELSE IF ~IsNumber(Slot(a, 1)) THEN Ok(m)
    ELSE IF AllNumbers(a, 2, 4)
    THEN do_flood_fill(m, as_usize(F64(Slot(a, 1))),
                       as_i32(F64(Slot(a, 2))), as_i32(F64(Slot(a, 3))),
                       as_u32(F64(Slot(a, 4))))
    ELSE Ok(m)

(* flood_fill *)
flood_fill(m, a) ==
    IF Len(a) < 5 THEN Err(m)
    ELSE IF ~IsNumber(Slot(a, 1)) THEN Ok(m)
    ELSE IF AllNumbers(a, 2, 4)
    THEN do_flood_fill(m, as_usize(F64(Slot(a, 1))),
                       as_i32(F64(Slot(a, 2))), as_i32(F64(Slot(a, 3))),
                       as_u32(F64(Slot(a, 4))))
    ELSE Err(m)

(* -------------------------------- text --------------------------------- *)
(* draw_text.  Which pixels a text inks is decided by the host's font      *)
(* (draw_arial_text) or by the built-in bitmaps (draw_simple_text); a text *)
(* of spaces inks none under either, and such texts are the model's text   *)
(* inputs.  parse_font_size never fails.                                   *)
draw_text(m, a) ==
    IF Len(a) < 9 THEN Ok(m)
    ELSE IF ~IsNumber(Slot(a, 1)) THEN Ok(m)
    ELSE IF as_usize(F64(Slot(a, 1))) >= 2 THEN Ok(m)
    ELSE IF ~AllNumbers(a, 2, 5) THEN Err(m)
    ELSE Ok(m)

(* ------------------------- copy, paste, merge -------------------------- *)
NoClipboard == [some |-> FALSE, data |-> <<>>]
SomeClipboard(d) == [some |-> TRUE, data |-> d]

(* do_copy *)
do_copy(m, layer, x, y, width, height) ==
    IF layer >= 2 THEN Ok(m)
    ELSE
    LET m1 == [m EXCEPT !.clipboard = NoClipboard]
        sx == add_u32(x, width)
        sy == add_u32(y, height)
        end_x == MinU32(sx.sum, U32(W))
        end_y == MinU32(sy.sum, U32(H))
    IN  IF overflow_checks /\ (sx.ovf \/ sy.ovf) THEN Panic(m1)
        ELSE IF \/ ~LtU32(x, U32(W)) \/ ~LtU32(y, U32(H))
                \/ LeU32(end_x, x) \/ LeU32(end_y, y)
        THEN Ok(m1)
        ELSE
        LET aw == end_x.lo - x.lo
            ah == end_y.lo - y.lo
            data == [k \in 1 .. (aw * ah) |->
                        pixel_to_u32(m.layers[layer + 1][
                            <<x.lo + ((k - 1) % aw), y.lo + ((k - 1) \div aw)>>])]
        IN  Ok([m1 EXCEPT !.clipboard = SomeClipboard(data)])

(* copy *)
copy(m, a) ==
    IF Len(a) < 6 THEN Ok(m)
    ELSE IF ~IsNumber(Slot(a, 1)) THEN Ok(m)
    ELSE IF AllNumbers(a, 2, 5)
    THEN do_copy(m, as_usize(F64(Slot(a, 1))),
                 as_u32(F64(Slot(a, 2))), as_u32(F64(Slot(a, 3))),
                 as_u32(F64(Slot(a, 4))), as_u32(F64(Slot(a, 5))))
    ELSE Err(m)

(* the paste loop: the cells of the clamped destination in row-major       *)
(* order take the clipboard words in order, while there are words left     *)
paste_index(c, dest_x, dest_y, end_x) ==
    (c[2] - dest_y) * (end_x - dest_x) + (c[1] - dest_x) + 1

(* do_paste writing the pasted block into both layers *)
do_paste_through(m, layer, x, y, width, height, dx, dy) ==
    IF layer >= 2 THEN Ok(m)
    ELSE IF ~m.clipboard.some THEN Ok(m)
    ELSE
    LET ix == u32_as_i32(x)
        iy == u32_as_i32(y)
        dest_x == i32_as_u32(add_i32_wrap(ix, dx))
        dest_y == i32_as_u32(add_i32_wrap(iy, dy))
        sx == add_u32(dest_x, width)
        sy == add_u32(dest_y, height)
        end_x == MinU32(sx.sum, U32(W))
        end_y == MinU32(sy.sum, U32(H))
        data == m.clipboard.data
        old == m.layers[layer + 1]
        inside(c) == InRange(c[1], dest_x, end_x) /\ InRange(c[2], dest_y, end_y)
        new == [c \in Cells |->
                   IF inside(c) /\ paste_index(c, dest_x.lo, dest_y.lo, end_x.lo) <= Len(data)
                   THEN unpack_u32(data[paste_index(c, dest_x.lo, dest_y.lo, end_x.lo)])
                   ELSE old[c]]
    IN  IF overflow_checks /\ (add_i32_ovf(ix, dx) \/ add_i32_ovf(iy, dy)) THEN Panic(m)
        ELSE IF overflow_checks /\ (sx.ovf \/ sy.ovf) THEN Panic(m)
        ELSE IF \/ ~LtU32(dest_x, U32(W)) \/ ~LtU32(dest_y, U32(H))
                \/ LeU32(end_x, dest_x) \/ LeU32(end_y, dest_y)
        THEN Ok(m)
        ELSE Ok([m EXCEPT !.layers = <<new, new>>, !.clipboard = NoClipboard])

(* do_paste *)
do_paste(m, layer, x, y, width, height, dx, dy) ==
    IF layer >= 2 THEN Ok(m)
    ELSE IF ~m.clipboard.some THEN Ok(m)
    ELSE
    LET ix == u32_as_i32(x)
        iy == u32_as_i32(y)
        dest_x == i32_as_u32(add_i32_wrap(ix, dx))
        dest_y == i32_as_u32(add_i32_wrap(iy, dy))
        sx == add_u32(dest_x, width)
        sy == add_u32(dest_y, height)
        end_x == MinU32(sx.sum, U32(W))
        end_y == MinU32(sy.sum, U32(H))
        data == m.clipboard.data
        old == m.layers[layer + 1]
        inside(c) == InRange(c[1], dest_x, end_x) /\ InRange(c[2], dest_y, end_y)
        new == [c \in Cells |->
                   IF inside(c) /\ paste_index(c, dest_x.lo, dest_y.lo, end_x.lo) <= Len(data)
                   THEN unpack_u32(data[paste_index(c, dest_x.lo, dest_y.lo, end_x.lo)])
                   ELSE old[c]]
    IN  IF overflow_checks /\ (add_i32_ovf(ix, dx) \/ add_i32_ovf(iy, dy)) THEN Panic(m)
        ELSE IF overflow_checks /\ (sx.ovf \/ sy.ovf) THEN Panic(m)
        ELSE IF \/ ~LtU32(dest_x, U32(W)) \/ ~LtU32(dest_y, U32(H))
                \/ LeU32(end_x, dest_x) \/ LeU32(end_y, dest_y)
        THEN Ok(m)
        ELSE Ok([m EXCEPT !.layers[layer + 1] = new, !.clipboard = NoClipboard])

(* paste *)
paste(m, a) ==
    IF Len(a) < 8 THEN Ok(m)
    ELSE IF ~IsNumber(Slot(a, 1)) THEN Ok(m)
    ELSE IF AllNumbers(a, 2, 7)
    THEN do_paste(m, as_usize(F64(Slot(a, 1))),
                  as_u32(F64(Slot(a, 2))), as_u32(F64(Slot(a, 3))),
                  as_u32(F64(Slot(a, 4))), as_u32(F64(Slot(a, 5))),
                  as_i32(F64(Slot(a, 6))), as_i32(F64(Slot(a, 7))))
    ELSE Err(m)

(* the pixel of do_merge: layer 1's pixel p1 over layer 0's pixel p0,      *)
(* channels and alpha rounded half up ((v + 0.5) as u8)                    *)
merge_pixel(p0, p1) ==
    LET a0 == p0[4]
        a1 == p1[4]
        (* a * 255 * 255 = 255 * (a0 + a1) - a0 * a1, with a0, a1 in 0..255 *)
        A == 255 * (a0 + a1) - a0 * a1
        ch(k) == IF A > 0
                 THEN Clamp((2 * (p1[k] * a1 * 255 + p0[k] * a0 * (255 - a1)) + A) \div (2 * A),
                            0, 255)
                 ELSE 0
    IN  Rgba(ch(1), ch(2), ch(3), Clamp((2 * A + 255) \div 510, 0, 255))

(* do_merge with the source pixel over the destination pixel *)
do_merge_source_over(m, layer, x, y, width, height) ==
    IF layer >= 2 THEN Ok(m)
    ELSE
    LET sx == add_u32(x, width)
        sy == add_u32(y, height)
        end_x == MinU32(sx.sum, U32(W))
        end_y == MinU32(sy.sum, U32(H))
        dst == layer
        src == IF dst = 1 THEN 0 ELSE 1
        inside(c) == InRange(c[1], x, end_x) /\ InRange(c[2], y, end_y)
        newdst == [c \in Cells |->
                      IF inside(c) THEN merge_pixel(m.layers[dst + 1][c], m.layers[src + 1][c])
                      ELSE m.layers[dst + 1][c]]
        newsrc == [c \in Cells |->
                      IF inside(c) THEN Transparent ELSE m.layers[src + 1][c]]
    IN  IF overflow_checks /\ (sx.ovf \/ sy.ovf) THEN Panic(m)
        ELSE IF \/ ~LtU32(x, U32(W)) \/ ~LtU32(y, U32(H))
                \/ LeU32(end_x, x) \/ LeU32(end_y, y)
        THEN Ok(m)
        ELSE Ok([m EXCEPT !.layers[dst + 1] = newdst, !.layers[src + 1] = newsrc])

(* do_merge *)
do_merge(m, layer, x, y, width, height) ==
    IF layer >= 2 THEN Ok(m)
    ELSE
    LET sx == add_u32(x, width)
        sy == add_u32(y, height)
        end_x == MinU32(sx.sum, U32(W))
        end_y == MinU32(sy.sum, U32(H))
        dst == layer
        src == IF dst = 1 THEN 0 ELSE 1
        inside(c) == InRange(c[1], x, end_x) /\ InRange(c[2], y, end_y)
        newdst == [c \in Cells |->
                      IF inside(c) THEN merge_pixel(m.layers[1][c], m.layers[2][c])
                      ELSE m.layers[dst + 1][c]]
        newsrc == [c \in Cells |->
                      IF inside(c) THEN Transparent ELSE m.layers[src + 1][c]]
    IN  IF overflow_checks /\ (sx.ovf \/ sy.ovf) THEN Panic(m)
        ELSE IF \/ ~LtU32(x, U32(W)) \/ ~LtU32(y, U32(H))
                \/ LeU32(end_x, x) \/ LeU32(end_y, y)
        THEN Ok(m)
        ELSE Ok([m EXCEPT !.layers[dst + 1] = newdst, !.layers[src + 1] = newsrc])

(* merge *)
merge(m, a) ==
    IF Len(a) < 6 THEN Ok(m)
    ELSE IF ~IsNumber(Slot(a, 1)) THEN Ok(m)
    ELSE IF AllNumbers(a, 2, 5)
    THEN do_merge(m, as_usize(F64(Slot(a, 1))),
                  as_u32(F64(Slot(a, 2))), as_u32(F64(Slot(a, 3))),
                  as_u32(F64(Slot(a, 4))), as_u32(F64(Slot(a, 5))))
    ELSE Err(m)

(* ------------------------- the log's actions --------------------------- *)
Red == <<Num(255), Num(0), Num(0), Num(255)>>
Green == <<Num(0), Num(255), Num(0), Num(255)>>
MaskSlots == <<Num(0), Num(0), Num(255)>>

(* slots 2..10: colour, mask, width, mask type *)
StateSlots(width) == Red \o MaskSlots \o <<width, Num(1)>>

Stroke(op, layer, line_type, points) ==
    <<Str(op), layer>> \o StateSlots(Num(1)) \o <<line_type>> \o points

FillOf(layer, x, y, w, h, fill_type) ==
    <<Str("fill"), layer>> \o StateSlots(Num(1)) \o <<x, y, w, h, fill_type>>

(* 0xFFFF0000: opaque blue as a packed colour *)
PackedBlue == Big(65535, 0)

ClearInputs == {<<Str("clearCanvas")>>}

EraseInputs == {<<Str("eraseAll"), Num(0)>>, <<Str("eraseAll"), Num(1)>>,
                <<Str("eraseAll")>>, <<Str("eraseAll"), Str("a")>>}

SkipInputs == {<<>>, <<Num(0)>>, <<Str("zoom"), Num(0)>>}

BezierInputs == {<<Str("bezier"), Num(0)>>}

RestoreInputs == {<<Str("restore"), Num(0)>>}

FreeHandInputs ==
    {Stroke("freeHand", Num(0), Num(lt), <<Num(0), Num(0), Num(1), Num(1)>>) : lt \in 1 .. 4}
    \cup {Stroke("freeHand", Num(1), Num(1), <<Num(1), Num(0), Num(1), Num(0), Num(0), Num(1)>>),
          Stroke("freeHand", Num(2), Num(1), <<Num(0), Num(0), Num(1), Num(1)>>),
          Stroke("freeHand", Str("a"), Num(1), <<Num(0), Num(0), Num(1), Num(1)>>),
          Stroke("freeHand", Num(0), Num(1), <<Num(0), Num(0), Num(1), Num(1), Str("x"), Num(0)>>),
          <<Str("freeHand"), Num(0)>>}

LineInputs ==
    {Stroke("line", Num(0), Num(1), <<Num(0), Num(0), Num(W - 1), Num(0)>>),
     Stroke("line", Num(1), Num(1), <<Half(0), Num(-1), Big(65535, 65535), Num(H)>>),
     Stroke("line", Num(2), Num(1), <<Num(0), Num(0), Num(1), Num(0)>>),
     Stroke("line", Num(1), Num(1), <<Num(W - 1), Num(H - 1), Num(0), Num(1)>>),
     Stroke("line", Num(0), Num(1), <<Num(0), Str("y"), Num(1), Num(0)>>),
     <<Str("line"), Num(0)>> \o StateSlots(Num(1)) \o <<Num(1)>>}

FillInputs ==
    {FillOf(Num(0), Num(1), Num(0), Num(1), Num(1), Num(21)),
     FillOf(Num(1), Num(0), Num(0), Num(W + 3), Num(H + 3), Num(21)),
     FillOf(Num(0), Num(0), Num(0), Num(W), Num(H), Num(20)),
     FillOf(Num(0), Num(0), Num(0), Num(W), Num(H), Num(22)),
     FillOf(Num(0), Num(0), Num(0), Num(W), Num(H), Num(23)),
     <<Str("fill"), Num(1)>> \o Green \o MaskSlots \o <<Num(1), Num(1)>>
         \o <<Num(0), Num(0), Num(W), Num(H), Num(21)>>,
     FillOf(Num(2), Num(0), Num(0), Num(1), Num(1), Num(21)),
     FillOf(Num(0), Big(65535, 65535), Num(0), Num(1), Num(1), Num(21)),
     FillOf(Num(0), Num(1), Num(0), Big(65535, 65535), Num(1), Num(21)),
     FillOf(Str("a"), Num(0), Num(0), Num(1), Num(1), Num(21)),
     FillOf(Num(0), Str("x"), Num(0), Num(1), Num(1), Num(21)),
     <<Str("fill"), Num(0)>>}

FloodInputs ==
    {<<Str("floodFill"), Num(0), Num(1), Num(0), PackedBlue>>,
     <<Str("floodFill"), Num(0), Num(-1), Num(0), PackedBlue>>,
     <<Str("floodFill"), Num(1), Num(1), Num(0), PackedBlue>>,
     <<Str("floodFill"), Num(2), Num(0), Num(0), PackedBlue>>,
     <<Str("floodFill"), Str("a"), Num(0), Num(0), PackedBlue>>,
     <<Str("floodFill"), Num(0), Num(0), Str("y"), PackedBlue>>,
     <<Str("floodFill"), Num(0)>>}

TextInputs ==
    {<<Str("text"), Num(0), Num(0), Num(0), Num(0), Num(1), Str(" "), Str("12px"), Str("Arial")>>,
     <<Str("text"), Num(0), Num(0), Str("y"), Num(0), Num(1), Str(" "), Num(12), Str("Arial")>>,
     <<Str("text"), Str("a"), Num(0), Num(0), Num(0), Num(1), Str(" "), Num(12), Str("Arial")>>,
     <<Str("text"), Num(0)>>}

(* the rectangles of copy and paste: inside, clamped at the edge, outside, *)
(* and one whose x + w passes 2^32                                         *)
Rects == {<<Num(0), Num(0), Num(2), Num(2)>>,
          <<Num(W - 1), Num(0), Num(2), Num(2)>>,
          <<Num(W + 3), Num(H + 3), Num(1), Num(1)>>,
          <<Big(65535, 65535), Num(0), Num(1), Num(1)>>}

CopyInputs ==
    {<<Str("copy"), Num(0)>> \o r : r \in Rects}
    \cup {<<Str("copy"), Num(1), Num(0), Num(0), Num(1), Num(1)>>,
          <<Str("copy"), Num(2), Num(0), Num(0), Num(2), Num(2)>>,
          <<Str("copy"), Num(2), Num(W + 3), Num(H + 3), Num(1), Num(1)>>,
          <<Str("copy"), Str("a"), Num(0), Num(0), Num(2), Num(2)>>,
          <<Str("copy"), Num(0), Num(0), Num(0), Str("w"), Num(2)>>,
          <<Str("copy"), Num(0)>>}

PasteInputs ==
    {<<Str("paste"), Num(0)>> \o r \o <<Num(0), Num(0)>> : r \in Rects}
    \cup {<<Str("paste"), Num(0), Num(0), Num(0), Num(2), Num(2), Num(1), Num(0)>>,
          <<Str("paste"), Num(0), Num(0), Num(0), Num(2), Num(2), Num(-1), Num(0)>>,
          <<Str("paste"), Num(1), Num(0), Num(0), Num(1), Num(1), Num(0), Num(0)>>,
          <<Str("paste"), Num(2), Num(0), Num(0), Num(2), Num(2), Num(0), Num(0)>>,
          <<Str("paste"), Str("a"), Num(0), Num(0), Num(2), Num(2), Num(0), Num(0)>>,
          <<Str("paste"), Num(0), Num(0), Num(0), Num(2), Num(2), Str("dx"), Num(0)>>,
          <<Str("paste"), Num(0)>>}

MergeInputs ==
    {<<Str("merge"), Num(0), Num(0), Num(0), Num(2), Num(2)>>,
     <<Str("merge"), Num(1), Num(W - 1), Num(0), Num(2), Num(2)>>,
     <<Str("merge"), Str("a"), Num(0), Num(0), Num(2), Num(2)>>,
     <<Str("merge"), Num(0), Num(0), Str("y"), Num(2), Num(2)>>,
     <<Str("merge"), Num(0)>>}

Inputs == ClearInputs \cup EraseInputs \cup SkipInputs \cup BezierInputs
          \cup RestoreInputs \cup FreeHandInputs \cup LineInputs \cup FillInputs
          \cup FloodInputs \cup TextInputs \cup CopyInputs \cup PasteInputs
          \cup MergeInputs

(* ----------------------- render_frame_by_frame ------------------------- *)
BlankLayers == <<BlankLayer, BlankLayer>>

Engine == [layers |-> layers, state |-> state, clipboard |-> clipboard]

(* the command of an action: "" when execute_action returns at once *)
Command(a) == IF a = <<>> THEN "" ELSE IF IsString(a[1]) THEN a[1].s ELSE ""

Known == {"clearCanvas", "eraseAll", "freeHand", "line", "bezier", "fill",
          "floodFill", "text", "copy", "paste", "merge", "restore"}

Kept(a) == Command(a) \in {"copy", "paste", "merge"}

InitRender ==
    /\ action = <<>>
    /\ n = 0
    /\ layers = BlankLayers
    /\ state = DefaultState
    /\ clipboard = NoClipboard
    /\ nframes = 0
    /\ frame = NoFrame
    /\ result = "none"
    /\ before = BlankLayers
    /\ prev = <<>>
    /\ prev_before = BlankLayers
    /\ returned = 0

InitKernelIdle ==
    /\ round_table = <<>>
    /\ mask = <<>>
    /\ mask_r = 0
    /\ mask_index = 0

InitFloodIdle ==
    /\ stack = <<>>
    /\ base_color = U32(0)

InitFixIdle ==
    /\ raw = <<>>
    /\ actions = <<>>
    /\ i = 0
    /\ pass = 0
    /\ once = <<>>

Init ==
    /\ pc = "start"
    /\ overflow_checks \in BOOLEAN
    /\ InitFixIdle
    /\ InitKernelIdle
    /\ InitFloodIdle
    /\ InitRender

(* self.canvas.clear() and the first frames.push *)
Begin ==
    /\ pc = "start"
    /\ layers' = canvas_clear(layers)
    /\ nframes' = nframes + 1
    /\ frame' = FrameSet(canvas_clear(layers))
    /\ pc' = "loop"
    /\ UNCHANGED <<overflow_checks, action, n, state, clipboard, result,
                   before, prev, prev_before, returned>>
    /\ UNCHANGED fixVars
    /\ UNCHANGED floodVars
    /\ UNCHANGED kernelVars

(* `for action in &pch.actions`: the next action of the log *)
Fetch ==
    /\ pc = "loop"
    /\ n < MaxActions
    /\ \E a \in Inputs : action' = a
    /\ n' = n + 1
    /\ prev' = (IF Kept(action) THEN action ELSE <<>>)
    /\ prev_before' = before
    /\ pc' = "exec"
    /\ UNCHANGED <<overflow_checks, layers, state, clipboard, nframes, frame,
                   result, before, returned>>
    /\ UNCHANGED fixVars
    /\ UNCHANGED floodVars
    /\ UNCHANGED kernelVars

(* the rest of the loop body, given what the handler returned:             *)
(* `self.execute_action(action)?` and frames.push                          *)
Finish(r) ==
    /\ layers' = r.m.layers
    /\ state' = r.m.state
    /\ clipboard' = r.m.clipboard
    /\ before' = (IF Kept(action) THEN layers ELSE BlankLayers)
    /\ IF r.res = "ok"
       THEN /\ nframes' = nframes + 1
            /\ frame' = FrameSet(r.m.layers)
            /\ pc' = "loop"
            /\ result' = result
       ELSE /\ nframes' = nframes
            /\ frame' = frame
            /\ pc' = (IF r.res = "err" THEN "error" ELSE "panic")
            /\ result' = (IF r.res = "err" THEN "Err" ELSE "panic")
    /\ UNCHANGED <<overflow_checks, action, n, prev, prev_before, returned>>
    /\ UNCHANGED fixVars
    /\ UNCHANGED floodVars
    /\ UNCHANGED kernelVars

(* execute_action: the empty action, a non-string command, an unknown one *)
Skip == pc = "exec" /\ Command(action) \notin Known /\ Finish(Ok(Engine))
ClearCanvas == pc = "exec" /\ Command(action) = "clearCanvas" /\ Finish(clear_canvas(Engine, action))
EraseAll == pc = "exec" /\ Command(action) = "eraseAll" /\ Finish(erase_all(Engine, action))
FreeHand == pc = "exec" /\ Command(action) = "freeHand" /\ Finish(free_hand(Engine, action))
DrawLine == pc = "exec" /\ Command(action) = "line" /\ Finish(draw_line(Engine, action))
DrawBezier == pc = "exec" /\ Command(action) = "bezier" /\ Finish(draw_bezier(Engine, action))
Fill == pc = "exec" /\ Command(action) = "fill" /\ Finish(fill(Engine, action))
FloodFill == pc = "exec" /\ Command(action) = "floodFill" /\ Finish(flood_fill(Engine, action))
DrawText == pc = "exec" /\ Command(action) = "text" /\ Finish(draw_text(Engine, action))
Copy == pc = "exec" /\ Command(action) = "copy" /\ Finish(copy(Engine, action))
Paste == pc = "exec" /\ Command(action) = "paste" /\ Finish(paste(Engine, action))
Merge == pc = "exec" /\ Command(action) = "merge" /\ Finish(merge(Engine, action))
Restore == pc = "exec" /\ Command(action) = "restore" /\ Finish(restore(Engine, action))

(* the log is exhausted: Ok(frames) *)
Return ==
    /\ pc = "loop"
    /\ pc' = "done"
    /\ result' = "Ok"
    /\ UNCHANGED <<overflow_checks, action, n, layers, state, clipboard,
                   nframes, frame, before, prev, prev_before, returned>>
    /\ UNCHANGED fixVars
    /\ UNCHANGED floodVars
    /\ UNCHANGED kernelVars

Next == \/ Begin \/ Fetch \/ Return
        \/ Skip \/ ClearCanvas \/ EraseAll \/ FreeHand \/ DrawLine \/ DrawBezier
        \/ Fill \/ FloodFill \/ DrawText \/ Copy \/ Paste \/ Merge \/ Restore

Spec == Init /\ [][Next]_vars

(* ----------------------------- fix_actions ------------------------------ *)
(* what the elements of a raw action are drawn from *)
RawValues == {Str("line"), Str("eraseAll"), Num(0)}

RawActions == UNION {[1 .. k -> RawValues] : k \in 0 .. MaxSlots}

RawLogs == UNION {[1 .. k -> RawActions] : k \in 0 .. MaxRaw}

(* the first idx > 0 at which the action holds the string "eraseAll", *)
(* -1 for None                                                        *)
erase_all_index(a) ==
    LET found == {idx \in 1 .. Len(a) - 1 : Slot(a, idx) = Str("eraseAll")}
    IN  IF found = {} THEN -1
        ELSE CHOOSE idx \in found : \A other \in found : idx <= other

(* `self.actions[i] = before; self.actions.insert(i, after);` *)
split_at(list, at, index) ==
    LET a == list[at + 1]
        before_part == SubSeq(a, 1, index)
        after_part == SubSeq(a, index + 1, Len(a))
    IN  SubSeq(list, 1, at) \o <<after_part, before_part>>
        \o SubSeq(list, at + 2, Len(list))

InitFix ==
    /\ pc = "fix"
    /\ overflow_checks = FALSE
    /\ raw \in RawLogs
    /\ actions = raw
    /\ i = 0
    /\ pass = 1
    /\ once = <<>>
    /\ InitKernelIdle
    /\ InitFloodIdle
    /\ InitRender

(* one turn of the while loop on an action that holds a later "eraseAll" *)
FixSplit ==
    /\ pc = "fix"
    /\ i < Len(actions)
    /\ erase_all_index(actions[i + 1]) >= 0
    /\ actions' = split_at(actions, i, erase_all_index(actions[i + 1]))
    /\ i' = i + 2
    /\ UNCHANGED <<pc, overflow_checks, raw, pass, once>>
    /\ UNCHANGED renderVars
    /\ UNCHANGED floodVars
    /\ UNCHANGED kernelVars

(* one turn of the while loop on any other action *)
FixSkip ==
    /\ pc = "fix"
    /\ i < Len(actions)
    /\ erase_all_index(actions[i + 1]) < 0
    /\ i' = i + 1
    /\ UNCHANGED <<pc, overflow_checks, raw, actions, pass, once>>
    /\ UNCHANGED renderVars
    /\ UNCHANGED floodVars
    /\ UNCHANGED kernelVars

(* the first call returns; fix_actions is called again on its result *)
FixAgain ==
    /\ pc = "fix"
    /\ i >= Len(actions)
    /\ pass = 1
    /\ once' = actions
    /\ i' = 0
    /\ pass' = 2
    /\ UNCHANGED <<pc, overflow_checks, raw, actions>>
    /\ UNCHANGED renderVars
    /\ UNCHANGED floodVars
    /\ UNCHANGED kernelVars

(* the second call returns *)
FixReturn ==
    /\ pc = "fix"
    /\ i >= Len(actions)
    /\ pass = 2
    /\ pc' = "fixed"
    /\ UNCHANGED <<overflow_checks, raw, actions, i, pass, once>>
    /\ UNCHANGED renderVars
    /\ UNCHANGED floodVars
    /\ UNCHANGED kernelVars

NextFix == FixSplit \/ FixSkip \/ FixAgain \/ FixReturn

SpecFix == InitFix /\ [][NextFix]_vars

(* ------------------- get_alpha, one call after another ------------------ *)
(* Every stamp of a stroke and every fill calls get_alpha once, with the   *)
(* colour the action carried: a "line" action from a point to itself with  *)
(* the brush is one assignment of current_color and one call.              *)
MaxCalls == 6       \* calls of get_alpha in one run

AlphaInputs == {0, 31, 45, 51, 66, 87, 95, 255}
AlphaTypes == {"Pen", "Brush", "Fill"}

InitAlpha ==
    /\ pc = "alpha"
    /\ overflow_checks = FALSE
    /\ InitFixIdle
    /\ InitKernelIdle
    /\ InitFloodIdle
    /\ InitRender

(* update_drawing_state_from_action: self.state.current_color = Color {..} *)
SetColor ==
    /\ pc = "alpha"
    /\ \E A \in AlphaInputs :
           state' = [state EXCEPT !.current_color = Rgba(0, 0, 0, A)]
    /\ UNCHANGED <<pc, overflow_checks, action, n, layers, clipboard, nframes,
                   frame, result, before, prev, prev_before, returned>>
    /\ UNCHANGED fixVars
    /\ UNCHANGED floodVars
    /\ UNCHANGED kernelVars

(* self.get_alpha(alpha_type) *)
GetAlpha(alpha_type) ==
    /\ pc = "alpha"
    /\ n < MaxCalls
    /\ state' = [state EXCEPT !.aerr = get_alpha_fine(state, alpha_type).aerr]
    /\ returned' = get_alpha_fine(state, alpha_type).a1
    /\ n' = n + 1
    /\ UNCHANGED <<pc, overflow_checks, action, layers, clipboard, nframes,
                   frame, result, before, prev, prev_before>>
    /\ UNCHANGED fixVars
    /\ UNCHANGED floodVars
    /\ UNCHANGED kernelVars

NextAlpha == SetColor \/ \E alpha_type \in AlphaTypes : GetAlpha(alpha_type)

SpecAlpha == InitAlpha /\ [][NextAlpha]_vars

(* --------------------------- init_round_data ---------------------------- *)
(* `distance_squared <= radius_squared` for cell (x, y) of the mask of     *)
(* size r: xx = x + 0.5 - r / 2 and yy likewise, both sides times 4        *)
in_radius(r, x, y) ==
    (2 * x + 1 - r) * (2 * x + 1 - r) + (2 * y + 1 - r) * (2 * y + 1 - r) <= r * r

adjusted_none(d) == {}

(* the cells `mask[..] = 0` clears after the loop, in round_data[3] and [5] *)
adjusted(d) ==
    IF d = 3 THEN {0, 2, 6, 8}
    ELSE IF d = 5 THEN {1, 3, 5, 9, 15, 19, 21, 23}
    ELSE {}

(* self.round_data = vec![Vec::new(); 31] *)
InitKernel ==
    /\ pc = "mask"
    /\ overflow_checks = FALSE
    /\ round_table = [d \in 0 .. 30 |-> <<>>]
    /\ mask = <<>>
    /\ mask_r = 1
    /\ mask_index = 0
    /\ InitFixIdle
    /\ InitFloodIdle
    /\ InitRender

(* `for r in 1..=30`: let mut mask = vec![0u8; r * r]; let mut index = 0 *)
NewMask ==
    /\ pc = "mask"
    /\ mask_r <= 30
    /\ mask' = [k \in 1 .. mask_r * mask_r |-> 0]
    /\ mask_index' = 0
    /\ pc' = "cell"
    /\ UNCHANGED <<overflow_checks, round_table, mask_r>>
    /\ UNCHANGED fixVars
    /\ UNCHANGED floodVars
    /\ UNCHANGED renderVars

(* one turn of `for x in 0..r`, the whole of `for y in 0..r {..}`: the    *)
(* cells index .. index + r - 1 with index = x * r                         *)
SetRow ==
    /\ pc = "cell"
    /\ mask_index < mask_r * mask_r
    /\ mask' = [k \in 1 .. Len(mask) |->
                    IF k - 1 \in mask_index .. (mask_index + mask_r - 1)
                    THEN (IF in_radius(mask_r, mask_index \div mask_r, (k - 1) - mask_index)
                          THEN 1 ELSE 0)
                    ELSE mask[k]]
    /\ mask_index' = mask_index + mask_r
    /\ UNCHANGED <<pc, overflow_checks, round_table, mask_r>>
    /\ UNCHANGED fixVars
    /\ UNCHANGED floodVars
    /\ UNCHANGED renderVars

(* self.round_data[r] = mask *)
StoreMask ==
    /\ pc = "cell"
    /\ mask_index = mask_r * mask_r
    /\ round_table' = [round_table EXCEPT ![mask_r] = mask]
    /\ mask_r' = mask_r + 1
    /\ pc' = "mask"
    /\ UNCHANGED <<overflow_checks, mask, mask_index>>
    /\ UNCHANGED fixVars
    /\ UNCHANGED floodVars
    /\ UNCHANGED renderVars

(* mask[k] = 0 for the adjusted cells of round_data[d] *)
adjust(table, d) ==
    [table EXCEPT ![d] = [k \in 1 .. Len(table[d]) |->
                             IF (k - 1) \in adjusted(d) THEN 0 ELSE table[d][k]]]

(* `if self.round_data.len() > 3 { .. if mask.len() > 8 { .. } }` *)
Adjust3 ==
    /\ pc = "mask"
    /\ mask_r = 31
    /\ round_table' = (IF Len(round_table[3]) > 8 THEN adjust(round_table, 3)
                       ELSE round_table)
    /\ pc' = "adjust5"
    /\ UNCHANGED <<overflow_checks, mask, mask_r, mask_index>>
    /\ UNCHANGED fixVars
    /\ UNCHANGED floodVars
    /\ UNCHANGED renderVars

(* `if self.round_data.len() > 5 { .. if mask.len() > 23 { .. } }` *)
Adjust5 ==
    /\ pc = "adjust5"
    /\ round_table' = (IF Len(round_table[5]) > 23 THEN adjust(round_table, 5)
                       ELSE round_table)
    /\ pc' = "built"
    /\ UNCHANGED <<overflow_checks, mask, mask_r, mask_index>>
    /\ UNCHANGED fixVars
    /\ UNCHANGED floodVars
    /\ UNCHANGED renderVars

NextKernel == NewMask \/ SetRow \/ StoreMask \/ Adjust3 \/ Adjust5

SpecKernel == InitKernel /\ [][NextKernel]_vars

(* ------------------------ one stamp per action -------------------------- *)
(* A "line" action from a point to itself is one call of                   *)
(* draw_point_with_origin: the state update of slots 2..10 and then one    *)
(* stamp of the kernel slot 11 names.  The log replayed here is made of    *)
(* such actions, with the widths and colour alphas a log can carry, and of *)
(* fills of the whole canvas.                                              *)
MaxPoints == 3      \* actions of the log replayed

ColourOf(r, g, b, A) == <<Num(r), Num(g), Num(b), Num(A)>>

PointOf(colour, width, line_type, c) ==
    <<Str("line"), Num(0)>> \o colour \o MaskSlots \o <<width, Num(1)>>
        \o <<Num(line_type), Num(c[1]), Num(c[2]), Num(c[1]), Num(c[2])>>

StampWidths == {Num(1), Half(1), Num(2), Half(2), Num(0), Num(-3), Num(31)}
Corners == {<<0, 0>>, <<W - 1, H - 1>>}

WidthPoints ==
    {PointOf(ColourOf(255, 0, 0, 255), w, lt, c) :
        w \in StampWidths, lt \in 1 .. 4, c \in Corners}

(* the pen with colour alpha 0 and the brush with colour alphas 0 and 95:  *)
(* the brush curve of 95 is below 1/255                                    *)
AlphaPoints ==
    {PointOf(ColourOf(0, 255, 0, 0), Num(1), 1, c) : c \in Corners}
    \cup {PointOf(ColourOf(0, 255, 0, A), w, 3, c) :
             A \in {0, 95}, w \in {Num(1), Num(2)}, c \in Corners}

(* the tone at colour alphas around the thresholds of get_tone_data *)
ToneAlphas == {0, 22, 23, 95, 252, 253}

TonePoints ==
    {PointOf(ColourOf(0, 255, 0, A), w, 4, c) :
        A \in ToneAlphas, w \in {Num(1), Num(3)}, c \in Corners}

(* fills of the whole canvas: the fill curve of colour alpha 12 is below   *)
(* 1/255                                                                   *)
PointFills ==
    {<<Str("fill"), Num(0)>> \o ColourOf(0, 255, 0, A) \o MaskSlots \o <<Num(1), Num(1)>>
         \o <<Num(0), Num(0), Num(W), Num(H), Num(21)>> : A \in {0, 12, 255}}

PointInputs == WidthPoints \cup AlphaPoints \cup TonePoints \cup PointFills

(* `for action in &pch.actions`, the log being one of points *)
FetchPoint ==
    /\ pc = "loop"
    /\ n < MaxPoints
    /\ \E a \in PointInputs : action' = a
    /\ n' = n + 1
    /\ pc' = "exec"
    /\ UNCHANGED <<overflow_checks, layers, state, clipboard, nframes, frame,
                   result, before, prev, prev_before, returned>>
    /\ UNCHANGED fixVars
    /\ UNCHANGED floodVars
    /\ UNCHANGED kernelVars

InitPoint ==
    /\ pc = "start"
    /\ overflow_checks = FALSE
    /\ InitFixIdle
    /\ InitKernelIdle
    /\ InitFloodIdle
    /\ InitRender

NextPoint == Begin \/ FetchPoint \/ DrawLine \/ Fill \/ Return

SpecPoint == InitPoint /\ [][NextPoint]_vars

(* ------------------- do_flood_fill, one pop at a time ------------------- *)
(* The canvas holds any layout of transparent and opaque red cells on      *)
(* layer 0; the action is a floodFill of layer 0 from any cell, or from    *)
(* the column right of the canvas, with opaque blue or opaque red.         *)
PackedRed == Big(65280, 255)

FloodLayouts == [Cells -> {Transparent, Rgba(255, 0, 0, 255)}]

FloodActions ==
    {<<Str("floodFill"), Num(0), Num(c[1]), Num(c[2]), packed>> :
        c \in Cells \cup {<<W, 0>>}, packed \in {PackedBlue, PackedRed}}

InitFlood ==
    /\ pc = "flood"
    /\ overflow_checks = FALSE
    /\ InitFixIdle
    /\ InitKernelIdle
    /\ InitFloodIdle
    /\ action \in FloodActions
    /\ layers \in {<<l, BlankLayer>> : l \in FloodLayouts}
    /\ before = layers
    /\ n = 0
    /\ state = DefaultState
    /\ clipboard = NoClipboard
    /\ nframes = 0
    /\ frame = NoFrame
    /\ result = "none"
    /\ prev = <<>>
    /\ prev_before = BlankLayers
    /\ returned = 0

(* the stack with its last element kept, and after `stack.pop()` *)
popped_keep(s) == s

popped(s) == SubSeq(s, 1, Len(s) - 1)

(* do_flood_fill up to `stack.push((x, y))`, with its early returns *)
FloodStart ==
    /\ pc = "flood"
    /\ LET layer == as_usize(F64(Slot(action, 1)))
           ux == i32_as_u32(as_i32(F64(Slot(action, 2))))
           uy == i32_as_u32(as_i32(F64(Slot(action, 3))))
           fill_color == as_u32(F64(Slot(action, 4)))
           base == pixel_to_u32(layers[layer + 1][<<ux.lo, uy.lo>>])
       IN  IF \/ layer >= 2
              \/ ~LtU32(ux, U32(W))
              \/ ~LtU32(uy, U32(H))
              \/ base.hi \div 256 = 0
              \/ base = fill_color
           THEN /\ pc' = "flooded"
                /\ result' = "Ok"
                /\ UNCHANGED floodVars
           ELSE /\ pc' = "pop"
                /\ result' = result
                /\ stack' = <<<<ux.lo, uy.lo>>>>
                /\ base_color' = base
    /\ UNCHANGED <<overflow_checks, action, n, layers, state, clipboard, nframes,
                   frame, before, prev, prev_before, returned>>
    /\ UNCHANGED fixVars
    /\ UNCHANGED kernelVars

(* one turn of `while let Some((px, py)) = stack.pop()` *)
FloodPop ==
    /\ pc = "pop"
    /\ stack # <<>>
    /\ LET layer == as_usize(F64(Slot(action, 1))) + 1
           fill_color == as_u32(F64(Slot(action, 4)))
           px == stack[Len(stack)][1]
           py == stack[Len(stack)][2]
           rest == popped(stack)
           current == pixel_to_u32(layers[layer][<<px, py>>])
           x0 == extend_left(layers[layer], base_color, px, py)
           x1 == extend_right(layers[layer], base_color, px, py)
           painted == [c \in Cells |->
                          IF c[2] = py /\ c[1] >= x0 /\ c[1] <= x1
                          THEN unpack_u32(fill_color)
                          ELSE layers[layer][c]]
           down == IF py + 1 < H THEN RunCells(x0, x1, py + 1) ELSE <<>>
           up == IF py > 0 THEN RunCells(x0, x1, py - 1) ELSE <<>>
       IN  IF Len(rest) > MAX_STACK_SIZE
           THEN /\ pc' = "flooded"
                /\ result' = "Ok"
                /\ stack' = rest
                /\ layers' = layers
           ELSE IF px >= W \/ py >= H \/ current = fill_color \/ current # base_color
           THEN /\ pc' = pc
                /\ result' = result
                /\ stack' = rest
                /\ layers' = layers
           ELSE /\ pc' = pc
                /\ result' = result
                /\ stack' = rest \o down \o up
                /\ layers' = [layers EXCEPT ![layer] = painted]
    /\ UNCHANGED <<overflow_checks, action, n, state, clipboard, nframes, frame,
                   before, prev, prev_before, returned, base_color>>
    /\ UNCHANGED fixVars
    /\ UNCHANGED kernelVars

(* the stack is empty: Ok(()) *)
FloodDone ==
    /\ pc = "pop"
    /\ stack = <<>>
    /\ pc' = "flooded"
    /\ result' = "Ok"
    /\ UNCHANGED <<overflow_checks, action, n, layers, state, clipboard, nframes,
                   frame, before, prev, prev_before, returned>>
    /\ UNCHANGED fixVars
    /\ UNCHANGED kernelVars
    /\ UNCHANGED floodVars

NextFlood == FloodStart \/ FloodPop \/ FloodDone

(* the call runs on: a step is taken whenever one can be *)
SpecFlood == InitFlood /\ [][NextFlood]_vars /\ WF_vars(NextFlood)

(* --------------------- ellipse fills of a blank canvas ------------------ *)
MaxFills == 1
MaxSide == 6

EllipseWidths == {Num(1), Num(2), Half(2), Num(3)}

EllipseOf(w, h, width, fill_type) ==
    <<Str("fill"), Num(0)>> \o StateSlots(width) \o <<Num(0), Num(0), Num(w), Num(h), Num(fill_type)>>

EllipseInputs ==
    {EllipseOf(w, h, width, t) :
        w \in 1 .. MaxSide, h \in 1 .. MaxSide, width \in EllipseWidths, t \in {22, 23}}

(* `for action in &pch.actions`, the log being one of ellipse fills *)
FetchEllipse ==
    /\ pc = "loop"
    /\ n < MaxFills
    /\ \E a \in EllipseInputs : action' = a
    /\ n' = n + 1
    /\ pc' = "exec"
    /\ UNCHANGED <<overflow_checks, layers, state, clipboard, nframes, frame,
                   result, before, prev, prev_before, returned>>
    /\ UNCHANGED fixVars
    /\ UNCHANGED floodVars
    /\ UNCHANGED kernelVars

NextEllipse == Begin \/ FetchEllipse \/ Fill \/ Return

SpecEllipse == InitPoint /\ [][NextEllipse]_vars

(* ============================ properties ================================ *)

(* the elements each recognised command needs for a complete action *)
Required(op) ==
    CASE op \in {"freeHand", "line", "fill"} -> 16
      [] op = "floodFill" -> 5
      [] op = "text" -> 9
      [] op \in {"copy", "merge"} -> 6
      [] op = "paste" -> 8
      [] op = "eraseAll" -> 2
      [] OTHER -> 1

Counted == {"freeHand", "line", "fill", "floodFill", "text", "copy", "paste",
            "merge", "eraseAll"}

Short(a) == Command(a) \in Counted /\ Len(a) < Required(Command(a))

Complete(a) == Command(a) \in Counted /\ Len(a) >= Required(Command(a))

(* C1: for every log of n actions, whatever the actions hold (well-formed,  *)
(* malformed, unknown command), render_frame_by_frame returns Ok with       *)
(* exactly n + 1 frames.                                                    *)
C1_FrameCount ==
    pc \in {"done", "error"} => (result = "Ok" /\ nframes = n + 1)

(* the normalised list as the specification words it: an action holding     *)
(* "eraseAll" at an index > 0 becomes the prefix, then the suffix           *)
RECURSIVE PrefixThenSuffix(_)
PrefixThenSuffix(list) ==
    IF list = <<>> THEN <<>>
    ELSE LET a == Head(list)
             index == erase_all_index(a)
         IN  (IF index < 0 THEN <<a>>
              ELSE <<SubSeq(a, 1, index), SubSeq(a, index + 1, Len(a))>>)
             \o PrefixThenSuffix(Tail(list))

(* C2: fix_actions replaces every action that holds "eraseAll" at an index  *)
(* > 0 by two adjacent actions, the prefix first and the suffix that starts *)
(* with "eraseAll" second, and keeps the order of all other actions.        *)
C2_PrefixFirst ==
    pass = 2 => once = PrefixThenSuffix(raw)

(* C3: fix_actions is idempotent: applied to its own result it returns the  *)
(* same list, also for actions that hold "eraseAll" at several indices > 0. *)
C3_Idempotent ==
    pc = "fixed" => actions = once

(* C4: an action with a recognised command and fewer elements than the      *)
(* command needs is skipped without error: the canvas is unchanged, the     *)
(* replay goes on, and the frame pushed for it equals the previous frame.   *)
C4_ShortSkipped ==
    [][(pc = "exec" /\ Short(action))
         => (/\ pc' = "loop"
             /\ layers' = layers
             /\ nframes' = nframes + 1
             /\ frame' = frame)]_vars

(* the slots an action decodes with `get_number(..)?` *)
ParsedSlots(a) ==
    CASE Command(a) = "fill" -> 11 .. 15
      [] Command(a) = "line" -> 12 .. 15
      [] Command(a) = "freeHand" -> 12 .. (12 + 2 * ((Len(a) - 16) \div 2) + 3)
      [] Command(a) = "floodFill" -> 2 .. 4
      [] Command(a) \in {"text", "copy", "merge"} -> 2 .. 5
      [] Command(a) = "paste" -> 2 .. 7
      [] OTHER -> {}

(* the layer slot lets the handler go on to decode the other slots *)
LayerAccepted(a) ==
    /\ IsNumber(Slot(a, 1))
    /\ Command(a) \in {"freeHand", "line", "text"} => as_usize(F64(Slot(a, 1))) < 2

NonNumberParsed(a) ==
    /\ Complete(a)
    /\ LayerAccepted(a)
    /\ \E k \in ParsedSlots(a) : ~IsNumber(Slot(a, k))

NonNumberLayer(a) == Complete(a) /\ ~IsNumber(Slot(a, 1))

(* every slot the claim calls required: the layer slot and the decoded ones *)
NonNumberRequired(a) ==
    /\ Complete(a)
    /\ \E k \in {1} \cup ParsedSlots(a) : ~IsNumber(Slot(a, k))

(* C5, as stated: a non-number in any required numeric slot of a recognised *)
(* action (layer, coordinate, size, offset, packed colour) ends the replay  *)
(* with an error.                                                           *)
C5_Original ==
    [][(pc = "exec" /\ NonNumberRequired(action))
         => (pc' = "error" /\ result' = "Err")]_vars

(* C5, amended: a non-number in a coordinate, size, offset or packed-colour *)
(* slot that a complete action decodes with get_number, its layer slot      *)
(* being accepted, ends the replay with an error: no frame is pushed for    *)
(* the action and nothing runs after it.  A non-number in the layer slot is *)
(* no error: the action is skipped, pixels, drawing state and clipboard     *)
(* stay as they are, and the replay goes on.                                *)
C5_ParseErrorFatal ==
    [][/\ (pc = "exec" /\ NonNumberParsed(action))
            => (pc' = "error" /\ result' = "Err" /\ nframes' = nframes)
       /\ (pc = "exec" /\ NonNumberLayer(action))
            => (/\ pc' = "loop"
                /\ nframes' = nframes + 1
                /\ layers' = layers
                /\ state' = state
                /\ clipboard' = clipboard)
       /\ pc = "error" => UNCHANGED vars]_vars

(* a replay ended by the colour slot's parse error of a flood fill whose    *)
(* layer slot is a number, after an earlier action was applied              *)
C5_Witness ==
    /\ pc = "error"
    /\ result = "Err"
    /\ n >= 2
    /\ nframes = n
    /\ Command(action) = "floodFill"
    /\ NonNumberParsed(action)

(* a complete action of a recognised command whose slots are all numbers *)
AllNumeric(a) ==
    /\ Complete(a)
    /\ \A k \in 1 .. Len(a) - 1 : IsNumber(Slot(a, k))

(* C6: an action whose slots are all numbers, whatever their values, runs   *)
(* to completion without error or panic (a write outside the canvas would   *)
(* be a panic of put_pixel).                                                *)
C6_NumbersNeverFail ==
    [][(pc = "exec" /\ AllNumeric(action)) => pc' = "loop"]_vars

(* the drawing state that slots 2..10 of the action spell *)
SlotState(a) ==
    [current_color |-> Rgba(as_u8(F64(Slot(a, 2))), as_u8(F64(Slot(a, 3))),
                            as_u8(F64(Slot(a, 4))), as_u8(F64(Slot(a, 5)))),
     current_mask |-> Rgba(as_u8(F64(Slot(a, 6))), as_u8(F64(Slot(a, 7))),
                           as_u8(F64(Slot(a, 8))), 255),
     current_width |-> F64(Slot(a, 9)),
     current_mask_type |-> MaskTypeFrom(as_i64(F64(Slot(a, 10))))]

Settings(st) ==
    [current_color |-> st.current_color,
     current_mask |-> st.current_mask,
     current_width |-> st.current_width,
     current_mask_type |-> st.current_mask_type]

CarriesState(a) ==
    /\ Command(a) \in {"freeHand", "line", "fill"}
    /\ Complete(a)
    /\ AllNumbers(a, 1, 10)

(* C7: after a freeHand, line or fill action whose slots 2..10 are numbers  *)
(* the colour, mask colour, width and mask type of the drawing state equal  *)
(* those slots, also when the layer index is out of range or nothing is     *)
(* drawn; an action of another command leaves them as they are.             *)
C7_StateFollowsSlots ==
    [][/\ (pc = "exec" /\ CarriesState(action))
            => Settings(state') = SlotState(action)
       /\ (pc = "exec" /\ Command(action) \notin {"freeHand", "line", "fill"})
            => Settings(state') = Settings(state)]_vars

(* a complete copy or paste action with numbers in every slot *)
IsCopy(a) == Command(a) = "copy" /\ AllNumeric(a)
IsPaste(a) == Command(a) = "paste" /\ AllNumeric(a)

(* the last action that ran was `action`, and prev ran right before it *)
Ran == pc \in {"loop", "done"} /\ n >= 2

(* C8: after a paste that follows a copy the clipboard is empty, whatever   *)
(* the paste's layer and destination; and the second of two consecutive     *)
(* pastes changes no pixel.                                                 *)
C8_ClipboardConsumed ==
    /\ (Ran /\ IsPaste(action) /\ IsCopy(prev)) => ~clipboard.some
    /\ (Ran /\ IsPaste(action) /\ IsPaste(prev)) => layers = before

(* the integer a slot holds, for the small whole numbers of a rectangle *)
IsSmall(v) == IsNumber(v) /\ v.hi = 0 /\ ~v.half
IntOf(v) == IF v.neg THEN -v.lo ELSE v.lo

(* paste names the layer and the rectangle of the copy that ran before it *)
SameBlock == \A k \in 1 .. 5 : Slot(action, k) = Slot(prev, k)

(* the rectangle of the copy lies inside the canvas, on a layer that exists *)
BlockInside(a) ==
    /\ \A k \in 1 .. 5 : IsSmall(Slot(a, k)) /\ ~Slot(a, k).neg
    /\ IntOf(Slot(a, 1)) < 2
    /\ IntOf(Slot(a, 4)) >= 1
    /\ IntOf(Slot(a, 5)) >= 1
    /\ IntOf(Slot(a, 2)) + IntOf(Slot(a, 4)) <= W
    /\ IntOf(Slot(a, 3)) + IntOf(Slot(a, 5)) <= H

(* copy(layer,x,y,w,h) inside the canvas, then paste(layer,x,y,w,h,dx,dy) *)
CopiedThenPasted ==
    /\ Ran
    /\ IsPaste(action)
    /\ IsCopy(prev)
    /\ SameBlock
    /\ BlockInside(prev)
    /\ IsSmall(Slot(action, 6))
    /\ IsSmall(Slot(action, 7))

(* C9: after copy(layer,x,y,w,h) inside the canvas and                      *)
(* paste(layer,x,y,w,h,dx,dy), each destination cell (x+dx+u, y+dy+v) of    *)
(* the canvas holds the pixel (x+u, y+v) had when copy ran, and every other *)
(* cell of the layer, and the other layer, is unchanged.                    *)
C9_PasteMovesBlock ==
    CopiedThenPasted =>
        LET l == IntOf(Slot(prev, 1)) + 1
            x == IntOf(Slot(prev, 2))
            y == IntOf(Slot(prev, 3))
            w == IntOf(Slot(prev, 4))
            h == IntOf(Slot(prev, 5))
            dx == IntOf(Slot(action, 6))
            dy == IntOf(Slot(action, 7))
        IN  /\ \A c \in Cells :
                 LET u == c[1] - (x + dx)
                     v == c[2] - (y + dy)
                 IN  IF u \in 0 .. w - 1 /\ v \in 0 .. h - 1
                     THEN layers[l][c] = prev_before[l][<<x + u, y + v>>]
                     ELSE layers[l][c] = prev_before[l][c]
            /\ layers[3 - l] = prev_before[3 - l]

(* paste(layer,x,y,w,h,0,0) right after copy(layer,x,y,w,h) *)
PastedBack ==
    /\ n >= 2
    /\ pc # "exec"
    /\ IsPaste(action)
    /\ IsCopy(prev)
    /\ SameBlock
    /\ Slot(action, 6) = Num(0)
    /\ Slot(action, 7) = Num(0)

(* C10: copy(layer,x,y,w,h) followed by paste(layer,x,y,w,h,0,0) leaves     *)
(* both layers bit-identical to what they were before the copy, for every   *)
(* layer content and every rectangle, also one clamped at the canvas edge.  *)
C10_RoundTrip ==
    PastedBack => layers = prev_before

(* a block that passes the right edge was copied from a layer with ink in   *)
(* it and pasted back, and the paste used up the clipboard                  *)
C10_Witness ==
    /\ PastedBack
    /\ pc = "loop"
    /\ Slot(action, 1) = Num(0)
    /\ Slot(action, 2) = Num(W - 1)
    /\ Slot(action, 4) = Num(2)
    /\ ~clipboard.some
    /\ layers[1][<<W - 1, 0>>] # Transparent
    /\ layers[1][<<W - 1, 1>>] = Transparent

(* the cells joined to the cells of S by 4-connected paths of cells that   *)
(* hold the pixel base                                                     *)
RECURSIVE Grow(_, _, _)
Grow(layer, base, S) ==
    LET T == S \cup {c \in Cells : /\ layer[c] = base
                                   /\ \E d \in S : Abs(c[1] - d[1]) + Abs(c[2] - d[2]) = 1}
    IN  IF T = S THEN S ELSE Grow(layer, base, T)

Component(layer, seed) == Grow(layer, layer[seed], {seed})

(* a complete floodFill on layer 0 or 1 with whole numbers for the seed *)
IsFlood(a) ==
    /\ Command(a) = "floodFill"
    /\ AllNumeric(a)
    /\ \A k \in 1 .. 3 : IsSmall(Slot(a, k))
    /\ Slot(a, 1) \in {Num(0), Num(1)}

FloodSeed(a) == <<IntOf(Slot(a, 2)), IntOf(Slot(a, 3))>>
FloodLayer(a) == IntOf(Slot(a, 1)) + 1
FloodColour(a) == as_u32(F64(Slot(a, 4)))

(* the seed lies in the canvas on a pixel with alpha that is not the fill *)
FloodApplies(ls, a) ==
    /\ FloodSeed(a) \in Cells
    /\ ls[FloodLayer(a)][FloodSeed(a)][4] # 0
    /\ pixel_to_u32(ls[FloodLayer(a)][FloodSeed(a)]) # FloodColour(a)

OverOf(top, bottom) ==
    LET A == 255 * (top[4] + bottom[4]) - top[4] * bottom[4]
        ch(k) == IF A = 0 THEN 0
                 ELSE (2 * (255 * top[k] * top[4] + bottom[k] * bottom[4] * (255 - top[4])) + A)
                      \div (2 * A)
    IN  Rgba(ch(1), ch(2), ch(3), (2 * A + 255) \div 510)

(* a complete merge on layer 0 or 1 with whole numbers for the rectangle *)
IsMerge(a) ==
    /\ Command(a) = "merge"
    /\ AllNumeric(a)
    /\ \A k \in 1 .. 5 : IsSmall(Slot(a, k)) /\ ~Slot(a, k).neg
    /\ Slot(a, 1) \in {Num(0), Num(1)}

(* the cells of the rectangle of slots 2..5 that lie in the canvas *)
ClampedRect(a) ==
    {c \in Cells : /\ c[1] >= IntOf(Slot(a, 2))
                   /\ c[1] < IntOf(Slot(a, 2)) + IntOf(Slot(a, 4))
                   /\ c[2] >= IntOf(Slot(a, 3))
                   /\ c[2] < IntOf(Slot(a, 3)) + IntOf(Slot(a, 5))}

(* C12: after merge(layer,x,y,w,h), layer in {0,1}, every cell of the       *)
(* clamped rectangle is (0,0,0,0) on the other (source) layer and on layer  *)
(* holds the straight-alpha over of the pre-merge source pixel on the       *)
(* pre-merge destination pixel; cells outside the rectangle are unchanged   *)
(* on both layers.                                                          *)
C12_MergeSourceOverDest ==
    [][(pc = "exec" /\ IsMerge(action))
         => LET dst == IntOf(Slot(action, 1)) + 1
                src == 3 - dst
            IN  \A c \in Cells :
                    IF c \in ClampedRect(action)
                    THEN /\ layers'[src][c] = Transparent
                         /\ layers'[dst][c] = OverOf(layers[src][c], layers[dst][c])
                    ELSE /\ layers'[src][c] = layers[src][c]
                         /\ layers'[dst][c] = layers[dst][c]]_vars

(* what do_merge computes: layer 1's pixel over layer 0's pixel, whichever  *)
(* of the two layers is the destination                                     *)
MergeUpperOverLower ==
    [][(pc = "exec" /\ IsMerge(action) /\ pc' = "loop")
         => LET dst == IntOf(Slot(action, 1)) + 1
                src == 3 - dst
            IN  \A c \in Cells :
                    IF c \in ClampedRect(action)
                    THEN /\ layers'[src][c] = Transparent
                         /\ layers'[dst][c] = OverOf(layers[2][c], layers[1][c])
                    ELSE /\ layers'[src][c] = layers[src][c]
                         /\ layers'[dst][c] = layers[dst][c]]_vars

(* ------------------------------------------------------------------------ *)
(* the curve value of the call a GetAlpha step makes *)
Called(alpha_type) == curve_fine(alpha_type, state.current_color[4])

(* a call that accumulates and whose accumulated error passes 1/255 emits  *)
(* 1/255 and takes 1/255 out of aerr; one that does not pass emits 0       *)
Emission ==
    \A alpha_type \in AlphaTypes :
        (GetAlpha(alpha_type) /\ Called(alpha_type) < Fine) =>
            IF state.aerr + Called(alpha_type) > Fine
            THEN /\ returned' = Fine
                 /\ state'.aerr = state.aerr + Called(alpha_type) - Fine
            ELSE /\ returned' = 0
                 /\ state'.aerr = state.aerr + Called(alpha_type)

(* C13 as stated: in every reachable state 0 <= aerr < 1/255 after each    *)
(* pen, brush or fill alpha computation, and whenever the accumulated      *)
(* error passes 1/255 the emitted alpha is 1/255 and aerr is reduced by    *)
(* 1/255.                                                                  *)
C13_Original ==
    /\ [](0 <= state.aerr /\ state.aerr < Fine)
    /\ [][Emission]_vars

(* C13 as amended: in every reachable state 0 <= aerr <= 1/255 after each  *)
(* pen, brush or fill alpha computation (aerr can be exactly 1/255), and   *)
(* whenever the accumulated error passes 1/255 the emitted alpha is 1/255  *)
(* and aerr is reduced by 1/255.                                           *)
C13_AerrAtMostQuantum ==
    /\ [](0 <= state.aerr /\ state.aerr <= Fine)
    /\ [][Emission]_vars

(* the accumulated error has passed 1/255 and the call emitted 1/255 *)
C13_Witness == pc = "alpha" /\ returned = Fine /\ state.aerr > 0

(* the accumulated error is exactly 1/255 *)
C13_Boundary == pc = "alpha" /\ state.aerr = Fine

(* ------------------------------------------------------------------------ *)
AllWhite == [c \in Cells |-> White]
WhiteFrame == [layer0 |-> AllWhite, layer1 |-> AllWhite, composite |-> AllWhite]

(* C14: frames are pushed in action order and only between actions: while  *)
(* action k runs the last frame is frame k - 1, frame 0 is all white in    *)
(* the layer-0 export, the layer-1 export and the composite, and once k    *)
(* actions are fully applied the last frame is frame k, the export of the  *)
(* canvas as it then is.                                                   *)
C14_FramesFollowActions ==
    /\ (nframes = 1 => frame = WhiteFrame)
    /\ (pc = "exec" => nframes = n)
    /\ (pc \in {"loop", "done"} => nframes = n + 1 /\ frame = FrameSet(layers))

(* two actions are applied and the last frame shows what they drew *)
C14_Witness ==
    /\ pc = "loop" /\ n = 2 /\ nframes = 3
    /\ frame.layer0 # AllWhite /\ frame.layer1 # frame.layer0
    /\ frame.composite # frame.layer0

(* ------------------------------------------------------------------------ *)
(* the actions execute_action does nothing for *)
Ignored(a) == Command(a) \notin Known \/ Command(a) \in {"bezier", "restore"}

(* C15: an action with an unknown opcode, a bezier action or a restore     *)
(* action leaves both layers, the drawing state (colour, mask, width, mask *)
(* type, aerr) and the clipboard as they were, raises no error, and the    *)
(* replay goes on to the next action.                                      *)
C15_IgnoredChangeNothing ==
    [][(pc = "exec" /\ Ignored(action)) =>
           /\ layers' = layers
           /\ state' = state
           /\ clipboard' = clipboard
           /\ pc' = "loop"
           /\ result' = result
           /\ nframes' = nframes + 1]_vars

(* an ignored action has run on a painted canvas with a filled clipboard   *)
(* and a drawing state that is not the default                             *)
C15_Witness ==
    /\ pc = "loop" /\ Ignored(action) /\ n = 3
    /\ layers # BlankLayers
    /\ state # DefaultState
    /\ clipboard.some

(* ------------------------------------------------------------------------ *)
(* eraseAll naming layer 0 or layer 1 *)
IsErase(a) ==
    /\ Command(a) = "eraseAll"
    /\ Len(a) >= 2
    /\ Slot(a, 1) \in {Num(0), Num(1)}

(* C16: eraseAll(layer) with layer in {0, 1} sets every pixel of that      *)
(* layer to (0,0,0,0) and leaves the other layer, the drawing state        *)
(* (aerr included) and the clipboard unchanged.                            *)
C16_EraseOneLayer ==
    [][(pc = "exec" /\ IsErase(action)) =>
           LET layer == IntOf(Slot(action, 1))
           IN  /\ \A c \in Cells : layers'[layer + 1][c] = Transparent
               /\ layers'[2 - layer] = layers[2 - layer]
               /\ state' = state
               /\ clipboard' = clipboard]_vars

(* eraseAll has emptied one layer of a canvas whose other layer is painted, *)
(* with a drawing state that is not the default                             *)
C16_Witness ==
    /\ pc = "loop" /\ IsErase(action)
    /\ layers[IntOf(Slot(action, 1)) + 1] = BlankLayer
    /\ layers[2 - IntOf(Slot(action, 1))] # BlankLayer
    /\ state # DefaultState

(* ------------------------------------------------------------------------ *)
(* a complete copy with whole numbers for the layer and the rectangle *)
IsPlainCopy(a) ==
    /\ IsCopy(a)
    /\ \A k \in 1 .. 5 : IsSmall(Slot(a, k)) /\ ~Slot(a, k).neg

(* the packed pixels of the clamped rectangle of a on layer l (1-based),   *)
(* row after row                                                           *)
RowMajor(ls, l, a) ==
    LET x == IntOf(Slot(a, 2))
        y == IntOf(Slot(a, 3))
        aw == Cardinality({c[1] : c \in ClampedRect(a)})
        ah == Cardinality({c[2] : c \in ClampedRect(a)})
    IN  [k \in 1 .. aw * ah |->
            pixel_to_u32(ls[l][<<x + ((k - 1) % aw), y + ((k - 1) \div aw)>>])]

(* C17: a copy never changes any layer; a copy whose rectangle clamped to  *)
(* the canvas is non-empty replaces any prior clipboard with the pixels of *)
(* that rectangle in row-major order (stated for the layers that exist);   *)
(* a copy whose clamped rectangle is empty or lies outside the canvas      *)
(* leaves the clipboard empty, so that a paste directly after it changes   *)
(* no pixel.                                                               *)
C17_CopyFillsClipboard ==
    /\ [][(pc = "exec" /\ IsPlainCopy(action)) =>
             /\ layers' = layers
             /\ (ClampedRect(action) # {} /\ IntOf(Slot(action, 1)) < 2) =>
                    clipboard' = SomeClipboard(
                        RowMajor(layers, IntOf(Slot(action, 1)) + 1, action))
             /\ ClampedRect(action) = {} => ~clipboard'.some]_vars
    /\ []((Ran /\ IsPaste(action) /\ IsPlainCopy(prev) /\ ClampedRect(prev) = {})
             => layers = before)

(* what holds of the code: the same for a copy that names layer 0 or 1 *)
CopyOnLayer ==
    /\ [][(pc = "exec" /\ IsPlainCopy(action) /\ IntOf(Slot(action, 1)) < 2) =>
             /\ layers' = layers
             /\ ClampedRect(action) # {} =>
                    clipboard' = SomeClipboard(
                        RowMajor(layers, IntOf(Slot(action, 1)) + 1, action))
             /\ ClampedRect(action) = {} => ~clipboard'.some]_vars
    /\ []((Ran /\ IsPaste(action) /\ IsPlainCopy(prev) /\ ClampedRect(prev) = {}
             /\ IntOf(Slot(prev, 1)) < 2)
             => layers = before)

(* ------------------------------------------------------------------------ *)
(* a line, or a freeHand of one segment, of width 1 on layer 0 or 1, with  *)
(* whole numbers in every slot and both ends inside the canvas             *)
IsSegment(a) ==
    /\ Command(a) \in {"line", "freeHand"}
    /\ Len(a) = 16
    /\ AllNumeric(a)
    /\ \A k \in 1 .. 15 : IsSmall(Slot(a, k)) /\ ~Slot(a, k).neg
    /\ Slot(a, 1) \in {Num(0), Num(1)}
    /\ Slot(a, 9) = Num(1)
    /\ <<IntOf(Slot(a, 12)), IntOf(Slot(a, 13))>> \in Cells
    /\ <<IntOf(Slot(a, 14)), IntOf(Slot(a, 15))>> \in Cells

Max(p, q) == IF p > q THEN p ELSE q

(* the 8-connected paths of max(|x1-x0|, |y1-y0|) + 1 cells that start at  *)
(* (x0, y0) and end at (x1, y1)                                            *)
PathsOf(a) ==
    LET x0 == IntOf(Slot(a, 12))
        y0 == IntOf(Slot(a, 13))
        x1 == IntOf(Slot(a, 14))
        y1 == IntOf(Slot(a, 15))
        len == Max(Abs(x1 - x0), Abs(y1 - y0)) + 1
    IN  {path \in [1 .. len -> Cells] :
            /\ path[1] = <<x0, y0>>
            /\ path[len] = <<x1, y1>>
            /\ \A k \in 1 .. len - 1 :
                   /\ path[k] # path[k + 1]
                   /\ Abs(path[k + 1][1] - path[k][1]) <= 1
                   /\ Abs(path[k + 1][2] - path[k][2]) <= 1}

CellsOf(path) == {path[k] : k \in DOMAIN path}

SetCells(d) == Cardinality({k \in 1 .. Len(round_table[d]) : round_table[d][k] = 1})

(* C19: after construction round[3] has exactly 5 set cells, round[5] has  *)
(* exactly 13, and for every other d in 1..30 cell (u, v) of round[d] is   *)
(* set iff (u + 0.5 - d/2)^2 + (v + 0.5 - d/2)^2 <= d^2 / 4; the table the *)
(* handlers read afterwards, round_data, is the table built, which no      *)
(* action writes.                                                          *)
C19_BrushMasks ==
    pc = "built" =>
        /\ SetCells(3) = 5
        /\ SetCells(5) = 13
        /\ \A d \in (1 .. 30) \ {3, 5} :
               /\ Len(round_table[d]) = d * d
               /\ \A u \in 0 .. d - 1 : \A v \in 0 .. d - 1 :
                      round_table[d][u * d + v + 1] = 1
                          <=> 4 * ((2 * u + 1 - d) * (2 * u + 1 - d)
                                   + (2 * v + 1 - d) * (2 * v + 1 - d)) <= 4 * d * d
        /\ \A d \in 1 .. 30 : \A k \in 1 .. d * d :
               round_table[d][k] = round_data(d, k - 1)

(* the tables are built: the mask of size 1 is its one cell, the mask of   *)
(* size 3 is a plus                                                        *)
C19_Witness ==
    /\ pc = "built"
    /\ round_table[1] = <<1>>
    /\ round_table[3] = <<0, 1, 0, 1, 1, 1, 0, 1, 0>>

(* ------------------------------------------------------------------------ *)
(* a complete fill of type 21 on layer 0 or 1 whose colour has alpha 255,  *)
(* with a non-negative whole number in every slot                          *)
IsRectFill(a) ==
    /\ Command(a) = "fill"
    /\ Len(a) = 16
    /\ AllNumeric(a)
    /\ \A k \in 1 .. 15 : ~Slot(a, k).neg /\ ~Slot(a, k).half
    /\ Slot(a, 1) \in {Num(0), Num(1)}
    /\ \A k \in 2 .. 4 : IsSmall(Slot(a, k)) /\ Slot(a, k).lo <= 255
    /\ Slot(a, 5) = Num(255)
    /\ Slot(a, 15) = Num(21)

(* v lies in [from, from + size), for u32 values from and size *)
Within(v, from, size) ==
    /\ from.hi = 0
    /\ from.lo <= v
    /\ (size.hi > 0 \/ v - from.lo < size.lo)

(* the cells of [x, x + w) x [y, y + h) that lie in the canvas *)
FillRect(a) ==
    {c \in Cells : /\ Within(c[1], as_u32(F64(Slot(a, 11))), as_u32(F64(Slot(a, 13))))
                   /\ Within(c[2], as_u32(F64(Slot(a, 12))), as_u32(F64(Slot(a, 14))))}

(* the effect the claim gives a fill: every cell of the clamped rectangle  *)
(* holds (r, g, b, 255) on the named layer, no other cell has changed      *)
Filled(a) ==
    LET l == IntOf(Slot(a, 1)) + 1
        colour == Rgba(IntOf(Slot(a, 2)), IntOf(Slot(a, 3)), IntOf(Slot(a, 4)), 255)
    IN  /\ \A c \in FillRect(a) : layers'[l][c] = colour
        /\ \A c \in Cells \ FillRect(a) : layers'[l][c] = layers[l][c]
        /\ layers'[3 - l] = layers[3 - l]

(* C20: a fill of type 21 (rect-solid) with colour alpha 255 sets every    *)
(* cell of the rectangle [x, x+w) x [y, y+h) clamped to the canvas to      *)
(* (r, g, b, 255) on the named layer and changes no cell outside it.       *)
C20_RectSolid ==
    [][(pc = "exec" /\ IsRectFill(action)) => Filled(action)]_vars

(* what holds of the code: the same when x + w and y + h fit in 32 bits *)
RectSolidInRange ==
    [][(pc = "exec" /\ IsRectFill(action)
          /\ ~add_u32(as_u32(F64(Slot(action, 11))), as_u32(F64(Slot(action, 13)))).ovf
          /\ ~add_u32(as_u32(F64(Slot(action, 12))), as_u32(F64(Slot(action, 14)))).ovf)
         => Filled(action)]_vars

(* ------------------------------------------------------------------------ *)
(* a complete "line" action on layer 0 from a point of the canvas to       *)
(* itself: one stamp at that point                                         *)
IsPoint(a) ==
    /\ Command(a) = "line"
    /\ Len(a) = 16
    /\ AllNumeric(a)
    /\ Slot(a, 1) = Num(0)
    /\ Slot(a, 11) \in {Num(lt) : lt \in 1 .. 4}
    /\ Slot(a, 12) \in {Num(x) : x \in Xs}
    /\ Slot(a, 13) \in {Num(y) : y \in Ys}
    /\ Slot(a, 14) = Slot(a, 12)
    /\ Slot(a, 15) = Slot(a, 13)

PointColour(a) == Rgba(IntOf(Slot(a, 2)), IntOf(Slot(a, 3)), IntOf(Slot(a, 4)), IntOf(Slot(a, 5)))
PointType(a) == IntOf(Slot(a, 11))
PointAt(a) == <<IntOf(Slot(a, 12)), IntOf(Slot(a, 13))>>

(* the width w truncated toward zero, and rounded to the nearest whole     *)
(* number (halves away from zero), both clamped to 1..30                   *)
Truncated(w) == Clamp(IF w.neg THEN 0 ELSE IF w.hi > 0 THEN 31 ELSE w.lo, 1, 30)
Rounded(w) ==
    Clamp(IF w.neg THEN 0 ELSE IF w.hi > 0 THEN 31
          ELSE w.lo + (IF w.half THEN 1 ELSE 0), 1, 30)

(* the cells (x - r + j, y - r + k) of the canvas with round[d][k d + j]   *)
(* set, r = floor(d / 2), for a stamp of diameter d at at = (x, y)         *)
Kernel(d, at) ==
    {c \in Cells :
        LET j == c[1] - (at[1] - (d \div 2))
            k == c[2] - (at[2] - (d \div 2))
        IN  /\ j \in 0 .. (d - 1)
            /\ k \in 0 .. (d - 1)
            /\ round_data(d, k * d + j) = 1}

(* what an opaque stamp writes: nothing is left of the pixel under it     *)
(* (the brush mixes its colour with that of a painted pixel, which it     *)
(* leaves opaque)                                                          *)
Opaque(a) == IF PointType(a) = 2 THEN Transparent
             ELSE Rgba(PointColour(a)[1], PointColour(a)[2], PointColour(a)[3], 255)

(* a stamp of diameter d has been made: the cells under the kernel hold    *)
(* what the stamp writes, no other cell has changed                        *)
StampedWith(d, a) ==
    /\ \A c \in Kernel(d, PointAt(a)) :
           IF PointType(a) = 3 /\ layers[1][c][4] > 0
           THEN layers'[1][c][4] = 255
           ELSE layers'[1][c] = Opaque(a)
    /\ \A c \in Cells \ Kernel(d, PointAt(a)) : layers'[1][c] = layers[1][c]
    /\ layers'[2] = layers[2]

(* C21, as claimed: for every value of the current width the stamp         *)
(* diameter of the pen, brush, tone and eraser kernels is                  *)
(* clamp(round(width), 1, 30).                                             *)
C21_Original ==
    [][(pc = "exec" /\ IsPoint(action) /\ PointColour(action)[4] = 255)
         => StampedWith(Rounded(Slot(action, 9)), action)]_vars

(* C21, amended: for every value of the current width (fractional, zero,   *)
(* negative or above 30) the stamp diameter of the pen, brush, tone and    *)
(* eraser kernels is the width truncated toward zero and clamped to 1..30, *)
(* so the mask table is never indexed outside 1..30.                       *)
C21_TruncatedDiameter ==
    [][(pc = "exec" /\ IsPoint(action) /\ PointColour(action)[4] = 255)
         => /\ StampedWith(Truncated(Slot(action, 9)), action)
            /\ stamp_d(state') = Truncated(Slot(action, 9))
            /\ stamp_d(state') \in 1 .. 30]_vars

(* a pen stamp of width 1.5 at the far corner, over a canvas whose cell    *)
(* (0, 0) is not painted, has painted the corner and left (0, 0) alone     *)
C21_Witness ==
    /\ pc = "loop"
    /\ IsPoint(action)
    /\ Slot(action, 9) = Half(1)
    /\ PointType(action) = 1
    /\ PointAt(action) = <<W - 1, H - 1>>
    /\ layers[1][<<W - 1, H - 1>>] = Rgba(255, 0, 0, 255)
    /\ layers[1][<<0, 0>>] = Transparent

(* ------------------------------------------------------------------------ *)
(* the alpha curve of a pen or brush stamp, in units of 1/Quantum of 1/255 *)
CurveOf(a) == curve(IF PointType(a) = 3 THEN "Brush" ELSE "Pen", PointColour(a)[4])

(* `ceil` if c1 > c0, `floor` otherwise, of num / den *)
TowardSource(num, den, c1, c0) == IF c1 > c0 THEN -((-num) \div den) ELSE num \div den

(* a pixel p of alpha k / 255 after a stamp of colour col and alpha 1/255: *)
(* alpha = a0 + a1 - a0 a1 is (k + 1 - k / 255) / 255, whose ceiling is    *)
(* k + 1 up to 255; the pen's channel (c1 a1 + c0 a0 (1 - a1)) / alpha is  *)
(* (255 c1 + 254 k c0) / (255 + 254 k) and the brush's                     *)
(* (c1 a1 + c0 a0) / (a0 + a1) is (c1 + k c0) / (1 + k)                    *)
QuantumStamp(p, col, line_type) ==
    LET k == p[4]
        ch(j) == IF line_type = 3
                 THEN TowardSource(col[j] + k * p[j], 1 + k, col[j], p[j])
                 ELSE TowardSource(255 * col[j] + 254 * k * p[j], 255 + 254 * k, col[j], p[j])
    IN  Rgba(ch(1), ch(2), ch(3), IF k < 255 THEN k + 1 ELSE 255)

(* C22: a pen or brush stamp whose alpha after error accumulation is       *)
(* exactly 0 changes no pixel, while aerr still accumulates; a stamp whose *)
(* accumulated error passes 1/255 is applied with alpha 1/255 (and 1/255   *)
(* is taken from aerr).                                                    *)
C22_SubQuantumStamps ==
    [][(pc = "exec" /\ IsPoint(action) /\ PointType(action) \in {1, 3}
          /\ CurveOf(action) < Quantum)
         => LET e == state.aerr + CurveOf(action)
                under == Kernel(Truncated(Slot(action, 9)), PointAt(action))
            IN  IF e > Quantum
                THEN /\ state'.aerr = e - Quantum
                     /\ \A c \in under :
                            layers'[1][c] = QuantumStamp(layers[1][c], PointColour(action),
                                                         PointType(action))
                     /\ \A c \in Cells \ under : layers'[1][c] = layers[1][c]
                     /\ layers'[2] = layers[2]
                ELSE /\ state'.aerr = e
                     /\ layers' = layers]_vars

(* a brush stamp whose curve is below 1/255 has left aerr above 0 and the  *)
(* painted pixel under it as it was, and the next has been applied to a    *)
(* painted pixel with alpha 1/255                                          *)
C22_Witness ==
    /\ pc = "loop"
    /\ IsPoint(action)
    /\ PointType(action) = 3
    /\ PointColour(action) = Rgba(0, 255, 0, 95)
    /\ layers[1][PointAt(action)] = Rgba(254, 1, 0, 255)
    /\ state.aerr > 0

(* ------------------------------------------------------------------------ *)
(* the smallest index k with A < toneAlphaThresholds[k], the last index if *)
(* there is none: the thresholds never decrease, so k is the number of     *)
(* thresholds that A has reached                                           *)
ToneOf(A) == Cardinality({j \in 1 .. Len(alpha_table) : alpha_table[j] <= A})

(* the dither cell of pixel c for a stamp of diameter d at at = (x, y):    *)
(* pattern_x = (x + (px - (x - r))) mod 4, likewise pattern_y              *)
DitherIndex(d, at, c) ==
    ((at[2] + (c[2] - (at[2] - (d \div 2)))) % 4) * 4
        + ((at[1] + (c[1] - (at[1] - (d \div 2)))) % 4)

(* tone[k][index] = 1 *)
ToneSet(k, index) == k >= tone_pattern[index + 1]

(* C23: a tone stamp selects tone[k] with k the smallest index such that   *)
(* colour alpha < toneAlphaThresholds[k] (the last mask if none) and       *)
(* writes (r, g, b, 255), overwriting the pixel, at exactly the in-canvas  *)
(* pixels under the brush mask whose dither cell is set in tone[k]; all    *)
(* other pixels and aerr are unchanged.                                    *)
C23_ToneStamp ==
    [][(pc = "exec" /\ IsPoint(action) /\ PointType(action) = 4)
         => LET d == Truncated(Slot(action, 9))
                at == PointAt(action)
                inked == {c \in Kernel(d, at) :
                             ToneSet(ToneOf(PointColour(action)[4]), DitherIndex(d, at, c))}
                col == PointColour(action)
            IN  /\ \A c \in inked : layers'[1][c] = Rgba(col[1], col[2], col[3], 255)
                /\ \A c \in Cells \ inked : layers'[1][c] = layers[1][c]
                /\ layers'[2] = layers[2]
                /\ state'.aerr = state.aerr]_vars

(* a tone stamp of width 3 and colour alpha 23 at the far corner, with     *)
(* aerr above 0, has inked the corner over a pixel of another colour and   *)
(* left a cell under the kernel as it was                                  *)
C23_Witness ==
    /\ pc = "loop"
    /\ IsPoint(action)
    /\ PointType(action) = 4
    /\ PointColour(action) = Rgba(0, 255, 0, 23)
    /\ Slot(action, 9) = Num(3)
    /\ PointAt(action) = <<W - 1, H - 1>>
    /\ layers[1][<<W - 1, H - 1>>] = Rgba(0, 255, 0, 255)
    /\ layers[1][<<W - 1, H - 2>>] = Rgba(255, 0, 0, 255)
    /\ state.aerr > 0

(* ------------------------------------------------------------------------ *)
(* C24: in every frame the composite stacks layer 0 under layer 1 over     *)
(* white with the blend of the per-layer exports: a composite pixel is     *)
(* white where both layers have alpha 0, equals the layer-0 export pixel   *)
(* where layer 1 has alpha 0, equals the layer-1 export pixel where layer  *)
(* 0 has alpha 0, and equals layer 1's colour where layer 1 has alpha 255. *)
C24_CompositeStacksLayers ==
    (pc = "loop") =>
        \A c \in Cells :
            /\ (layers[1][c][4] = 0 /\ layers[2][c][4] = 0) => frame.composite[c] = White
            /\ layers[2][c][4] = 0 => frame.composite[c] = frame.layer0[c]
            /\ layers[1][c][4] = 0 => frame.composite[c] = frame.layer1[c]
            /\ layers[2][c][4] = 255 =>
                   frame.composite[c] = <<layers[2][c][1], layers[2][c][2], layers[2][c][3]>>

(* a frame of a canvas where a cell is painted on both layers in different *)
(* colours, another on layer 0 only, with layer 1 opaque over the first    *)
C24_Witness ==
    /\ pc = "loop"
    /\ nframes > 1
    /\ \E c \in Cells :
           /\ layers[1][c][4] = 255
           /\ layers[2][c][4] = 255
           /\ layers[1][c] # layers[2][c]
    /\ \E c \in Cells : layers[1][c][4] > 0 /\ layers[2][c][4] = 0

FloodAgrees ==
    (pc = "flooded") =>
        layers = flood_fill([layers |-> before, state |-> state, clipboard |-> clipboard],
                            action).m.layers

(* ------------------------------------------------------------------------ *)
IsEllipse(a, t) == Command(a) = "fill" /\ Len(a) >= 16 /\ Slot(a, 15) = Num(t)

RectW(a) == F64(Slot(a, 13)).lo

RectH(a) == F64(Slot(a, 14)).lo

(* min((w - 1) / 2, (h - 1) / 2) <= width, doubled *)
Degenerate(a) ==
    \/ RectW(a) - 1 <= twice(F64(Slot(a, 9)))
    \/ RectH(a) - 1 <= twice(F64(Slot(a, 9)))

Solid(a) == [a EXCEPT ![16] = Num(23)]

(* C26: an ellipse-outline fill (type 22) with min((w-1)/2, (h-1)/2) <=     *)
(* width paints the set of cells an ellipse-solid fill (type 23) of the    *)
(* same rectangle paints: the canvas after it is the canvas after the      *)
(* solid fill, and the two masks agree on every cell of the rectangle.     *)
C26_DegenerateOutlineIsSolid ==
    [][(pc = "exec" /\ IsEllipse(action, 22) /\ Degenerate(action)) =>
          /\ layers' = fill(Engine, Solid(action)).m.layers
          /\ \A u \in 0 .. (RectW(action) - 1), v \in 0 .. (RectH(action) - 1) :
                 ellipse_mask(state', u, v, U32(RectW(action)), U32(RectH(action)))
                     = ellipse_fill_mask(u, v, U32(RectW(action)), U32(RectH(action)))]_vars

(* a degenerate outline fill has run and painted a part of the canvas only: *)
(* the corner of the rectangle lies outside the ellipse                    *)
C26_Witness ==
    /\ pc = "loop"
    /\ IsEllipse(action, 22)
    /\ Degenerate(action)
    /\ layers[1][<<0, 0>>] = Transparent
    /\ layers[1][<<1, 1>>] = Rgba(255, 0, 0, 255)

(* an outline fill that is not degenerate leaves the middle unpainted      *)
C26_Hollow ==
    /\ pc = "loop"
    /\ IsEllipse(action, 22)
    /\ ~Degenerate(action)
    /\ layers[1][<<0, 0>>] = Rgba(255, 0, 0, 255)
    /\ layers[1][<<1, 1>>] = Transparent

(* ------------------------------------------------------------------------ *)
(* layer L (1-based) is the one slot 1 of a names *)
Names(a, L) ==
    /\ Len(a) >= 2
    /\ IsNumber(Slot(a, 1))
    /\ as_usize(F64(Slot(a, 1))) + 1 = L

(* C27: layer isolation: every freeHand, line, fill, floodFill, paste and  *)
(* eraseAll action changes pixels only on the layer named in its slot 1,   *)
(* the other layer being bit-identical before and after; only merge and    *)
(* clearCanvas change both layers (so no other command changes a layer its *)
(* slot 1 does not name).                                                  *)
C27_LayerIsolation ==
    [][(pc = "exec" /\ Command(action) \notin {"merge", "clearCanvas"}) =>
           \A L \in 1 .. 2 : layers'[L] # layers[L] => Names(action, L)]_vars

(* a paste has changed layer 0 of a canvas whose layer 1 is painted *)
C27_Witness ==
    /\ pc = "loop"
    /\ Command(action) = "paste"
    /\ Names(action, 1)
    /\ layers[1] # before[1]
    /\ layers[2] = before[2]
    /\ layers[2] # BlankLayer

(* a merge has changed both layers *)
C27_BothChanged ==
    /\ pc = "loop"
    /\ Command(action) = "merge"
    /\ layers[1] # before[1]
    /\ layers[2] # before[2]

(* ------------------------------------------------------------------------ *)
(* the merge a does, with the other layer for its destination *)
Swapped(a) == [a EXCEPT ![2] = Num(1 - IntOf(Slot(a, 1)))]

(* C28: merge always composes the layer-1 pixel over the layer-0 pixel,    *)
(* whichever layer is the destination: merge(0, rect) and merge(1, rect)   *)
(* from the same state write the same merged pixels, one into layer 0 and  *)
(* the other into layer 1.                                                 *)
C28_MergeUpperOverLower ==
    [][(pc = "exec" /\ IsMerge(action)) =>
           LET dst == IntOf(Slot(action, 1)) + 1
               other == merge(Engine, Swapped(action)).m.layers
           IN  \A c \in ClampedRect(action) :
                   /\ layers'[dst][c] = OverOf(layers[2][c], layers[1][c])
                   /\ layers'[dst][c] = other[3 - dst][c]
                   /\ layers'[3 - dst][c] = other[dst][c]]_vars

(* merge(1, rect) has run on a cell opaque on both layers in different     *)
(* colours: layer 1 keeps its own colour there and layer 0 is emptied      *)
C28_Witness ==
    /\ pc = "loop"
    /\ IsMerge(action)
    /\ Slot(action, 1) = Num(1)
    /\ \E c \in ClampedRect(action) :
           /\ before[1][c][4] = 255
           /\ before[2][c][4] = 255
           /\ before[1][c] # before[2][c]
           /\ layers[2][c] = before[2][c]
           /\ layers[1][c] = Transparent

(* ------------------------------------------------------------------------ *)
(* some pixel has a smaller alpha after the step than before it *)
AlphaDecreases == \E L \in 1 .. 2, c \in Cells : layers'[L][c][4] < layers[L][c][4]

(* a stroke (freeHand or line) with the eraser *)
IsEraserStroke(a) ==
    /\ Command(a) \in {"freeHand", "line"}
    /\ Len(a) >= 12
    /\ Slot(a, 11) = Num(2)

AlphaDecreasesOnlyBy ==
    [][(pc = "exec" /\ AlphaDecreases) =>
           \/ IsEraserStroke(action)
           \/ Command(action) \in {"eraseAll", "clearCanvas", "merge", "paste",
                                    "floodFill"}]_vars

(* ------------------------------------------------------------------------ *)
(* the step runs a fill whose get_alpha call returns 0 *)
ZeroAlphaFill ==
    /\ pc = "exec"
    /\ Command(action) = "fill"
    /\ Len(action) >= 16
    /\ AllNumeric(action)
    /\ get_alpha(state_from_slots(state, action), "Fill").a1 = 0

(* C30: a fill whose effective source alpha is 0 (colour alpha 0, or a     *)
(* sub-quantum alpha absorbed into aerr) leaves every pixel of the layer   *)
(* unchanged, as a pen or brush stamp with alpha 0 does.                   *)
C30_ZeroAlphaFillChangesNothing == [][ZeroAlphaFill => layers' = layers]_vars

(* what such a fill does keep: every alpha, and every transparent pixel   *)
ZeroAlphaFillKeeps ==
    [][ZeroAlphaFill =>
           \A c \in Cells :
               /\ layers'[1][c][4] = layers[1][c][4]
               /\ layers[1][c][4] = 0 => layers'[1][c] = layers[1][c]]_vars

====
